---- MODULE Spec2Model ----
(***************************************************************************)
(* A model of Triton VM's arithmetic constraint system:                    *)
(*   - the constraint circuit arena (deduplicating expression DAG),        *)
(*   - Constraints::lower_to_target_degree_through_substitutions and       *)
(*     Constraints::combine_with_substitution_induced_constraints          *)
(*     (triton-constraint-builder/src/lib.rs),                             *)
(*   - the column registry of triton-vm/src/table/table_column.rs.         *)
(*                                                                         *)
(* The crate `constraint_circuit` (builder, degree(), lower_to_degree) and *)
(* the modules master_table, *_table (widths, table starts) and            *)
(* degree_lowering_table are not part of the sources at hand; they are     *)
(* modelled from sections 3, 4.1, 4.2 and 4.4 of the specification.        *)
(***************************************************************************)
EXTENDS Integers, Sequences, FiniteSets, TLC

VARIABLES
    pc,                \* position of the run of `gen` / of the test driver
    arena,             \* bucket -> sequence of nodes (one builder per bucket)
    constraints,       \* bucket -> sequence of root ids (self.init, .cons, .tran, .term)
    lowering_info,     \* the DegreeLoweringInfo passed in (kept for the record)
    info,              \* `let mut info = lowering_info;` the running counts
    cur,               \* index of the bucket being lowered (1..4)
    local_info,        \* lower_to_degree's own copy of info (passed by value)
    base_constraints,  \* lower_to_degree's vector of main-column substitutions
    ext_constraints,   \* lower_to_degree's vector of aux-column substitutions
    substitutions,     \* AllSubstitutions: space -> bucket -> sequence of root ids
    new_columns,       \* space -> sequence of the column indices allocated so far
    start,             \* the constraints as constructed, before lowering
    run_no,            \* 1, or 2 when the same input is lowered a second time
    first_result,      \* what the first of two runs produced
    builder,           \* a single arena driven through the builder API
    handles,           \* the node ids the builder API returned, in call order
    requests,          \* the structural keys that were asked for, in call order
    walk,              \* the column walk of the contiguity tests
    consumed,          \* what the last call of init / cons / tran / term returned
    generated,         \* what gen generated so far, and the uses of the substitutions
    proof_pc,          \* position of the proof tests: "idle", "stream", "proof", "returned"
    proof_stream,      \* the items enqueued to the ProofStream
    proof,             \* Proof(Vec<BFieldElement>): the sequence of field elements
    maybe_padded_height,  \* what Proof::padded_height returned
    parse_pc,          \* position of the parser tests: "idle", "input", "parsed", "assembled"
    input,             \* the source text handed to parse
    parse_result,      \* what parse returned
    assembly           \* the labelled instructions, label map and instructions

vars == <<pc, arena, constraints, lowering_info, info, cur, local_info,
          base_constraints, ext_constraints, substitutions, new_columns,
          start, run_no, first_result, builder, handles, requests, walk,
          consumed, generated, proof_pc, proof_stream, proof, maybe_padded_height,
          parse_pc, input, parse_result, assembly>>

\* The variables of the builder and column-walk drivers, and of the rerun.
proofVars == <<proof_pc, proof_stream, proof, maybe_padded_height>>
parseVars == <<parse_pc, input, parse_result, assembly>>
otherVars ==
    <<builder, handles, requests, walk, consumed, generated, proofVars, parseVars>>
runVars == <<start, run_no, first_result>>

(***************************************************************************)
(* Bounds of the model.                                                    *)
(***************************************************************************)
MaxTargetDegree == 4
MaxBuilderCalls == 4
MaxDegreeLoweringColumns == 2

Max(a, b) == IF a >= b THEN a ELSE b

RECURSIVE SumSeq(_)
SumSeq(s) == IF s = <<>> THEN 0 ELSE Head(s) + SumSeq(Tail(s))

(***************************************************************************)
(* Constraint circuit (section 3 and 4.1 of the specification).            *)
(*                                                                         *)
(* A node is a record [kind, x, l, r, deg]:                                *)
(*   kind  "Input" | "Challenge" | "BConstant" | "XConstant" | "BinOp"     *)
(*   x     the payload, always a pair: <<row indicator, column index>>,    *)
(*         <<"id", challenge id>>, <<"b", value>>, <<"x", value>> or       *)
(*         <<operator, 0>> with operator "Add" | "Sub" | "Mul"             *)
(*   l, r  ids of the operands (0 for a leaf)                              *)
(*   deg   the memoized total degree                                       *)
(* A node's id is its position in the arena (arena insertion order).       *)
(***************************************************************************)
BucketSet == {"init", "cons", "tran", "term"}
Spaces == {"main", "aux"}

LeafKey(kind, x) == [kind |-> kind, x |-> x, l |-> 0, r |-> 0]
BinOpKey(op, l, r) == [kind |-> "BinOp", x |-> <<op, 0>>, l |-> l, r |-> r]
KeyOf(node) == [kind |-> node.kind, x |-> node.x, l |-> node.l, r |-> node.r]

IsLeaf(node) == node.kind # "BinOp"

\* degree(): 0 for constants, 1 for inputs and challenges, max for Add and
\* Sub, sum for Mul; computed from the operands' memoized degrees.
degree_times_is_max(ar, key) ==
    IF key.kind \in {"BConstant", "XConstant"} THEN 0
    ELSE IF key.kind \in {"Input", "Challenge"} THEN 1
    ELSE Max(ar[key.l].deg, ar[key.r].deg)

degree(ar, key) ==
    IF key.kind \in {"BConstant", "XConstant"} THEN 0
    ELSE IF key.kind \in {"Input", "Challenge"} THEN 1
    ELSE IF key.x[1] = "Mul" THEN ar[key.l].deg + ar[key.r].deg
    ELSE Max(ar[key.l].deg, ar[key.r].deg)

\* The id of the node of the arena that is structurally equal to key, or 0.
find_never(ar, key) == 0

find(ar, key) ==
    IF \E i \in 1..Len(ar) : KeyOf(ar[i]) = key
    THEN CHOOSE i \in 1..Len(ar) : KeyOf(ar[i]) = key
    ELSE 0

\* Node construction with deduplication: <<arena', id>>.
make_node(ar, key) ==
    LET found == find(ar, key)
    IN  IF found # 0 THEN <<ar, found>>
        ELSE <<Append(ar, [kind |-> key.kind, x |-> key.x, l |-> key.l,
                           r |-> key.r, deg |-> degree(ar, key)]),
               Len(ar) + 1>>

(***************************************************************************)
(* Expressions as the Rust operator expressions that build them:           *)
(* a leaf is <<kind, payload>>, an operation is <<op, left, right>>.       *)
(* Operands are evaluated left to right, then the operator is applied.     *)
(***************************************************************************)
RECURSIVE build(_, _)
build(ar, e) ==
    IF Len(e) = 2 THEN make_node(ar, LeafKey(e[1], e[2]))
    ELSE LET lhs == build(ar, e[2])
             rhs == build(lhs[1], e[3])
         IN  IF lhs[2] > 0 /\ rhs[2] > 0
             THEN make_node(rhs[1], BinOpKey(e[1], lhs[2], rhs[2]))
             ELSE <<ar, 0>>

\* vec![e1, e2, ...] built with one shared builder: <<arena, roots>>.
RECURSIVE build_all(_, _, _)
build_all(ar, roots, es) ==
    IF es = <<>> THEN <<ar, roots>>
    ELSE LET built == build(ar, Head(es))
         IN  IF built[2] > 0
             THEN build_all(built[1], Append(roots, built[2]), Tail(es))
             ELSE <<ar, roots>>

Mul(a, b) == <<"Mul", a, b>>
Add(a, b) == <<"Add", a, b>>
Sub(a, b) == <<"Sub", a, b>>
Input(ind, i) == <<"Input", <<ind, i>>>>
Challenge(c) == <<"Challenge", <<"id", c>>>>
BConstant(v) == <<"BConstant", <<"b", v>>>>
XConstant(v) == <<"XConstant", <<"x", v>>>>

(***************************************************************************)
(* Constraints::test_constraints (lib.rs, tests).                          *)
(***************************************************************************)
Ch0 == 0
Ch1 == 1

input_to_the_4th(i) ==
    Mul(Mul(Mul(Input("Main", i), Input("Main", i)), Input("Main", i)),
        Input("Main", i))

small_init_constraints ==
    << Sub(Mul(Input("Main", 0), Input("Main", 1)), Input("Main", 2)),
       Sub(Sub(input_to_the_4th(0), Challenge(Ch1)), BConstant(16)),
       Sub(Mul(Input("Main", 2), input_to_the_4th(0)), input_to_the_4th(1)) >>

small_transition_constraints ==
    << Sub(Mul(Input("CurrentMain", 0), Input("NextAux", 1)),
           Mul(Input("NextMain", 1), Input("CurrentAux", 0))),
       Sub(Mul(Input("CurrentMain", 1), Input("NextAux", 2)),
           Mul(Input("NextMain", 2), Input("CurrentAux", 1))),
       Add(Mul(Mul(Mul(Input("CurrentMain", 2), Input("NextAux", 0)),
                   Input("NextAux", 1)), Input("NextAux", 3)),
           XConstant(42)),
       Sub(Mul(Input("CurrentMain", 0), Challenge(Ch0)), Challenge(Ch1)) >>

test_constraints ==
    [init |-> small_init_constraints, cons |-> <<>>,
     tran |-> small_transition_constraints, term |-> <<>>]

\* fn degree_lowering_info() of the tests.
TestTargetDegree == 4
TestNumMainCols == 42
TestNumAuxCols == 13

(***************************************************************************)
(* The inputs of the model: every bucket draws its constraints from a      *)
(* small family that holds the test constraints of lib.rs and, beside      *)
(* them, circuits with a shared operand, with auxiliary columns, with a    *)
(* leaf as root and with a product that has no node of the target degree.  *)
(***************************************************************************)
shared_operand_constraints ==
    << Mul(Add(Input("Main", 0), Input("Main", 1)),
           Add(Input("Main", 0), Input("Main", 1))),
       Sub(Mul(Mul(Input("Aux", 0), Input("Aux", 1)), Input("Main", 2)),
           Challenge(Ch0)) >>

leaf_root_constraints ==
    << Input("Main", 1),
       Mul(Mul(Input("Main", 0), Input("Main", 1)),
           Mul(Input("Main", 2), Input("Aux", 3))) >>

SingleRowInputs ==
    { <<>>, small_init_constraints, shared_operand_constraints,
      leaf_root_constraints }

DualRowInputs == { <<>>, small_transition_constraints }

TargetDegrees == 1..MaxTargetDegree

\* The starting column counts cover every column the inputs refer to.
StartingCounts == { <<TestNumMainCols, TestNumAuxCols>>, <<3, 4>> }

(***************************************************************************)
(* Queries on a circuit.                                                   *)
(***************************************************************************)
\* The ids of all nodes of the circuit rooted at id.
RECURSIVE all_nodes_in_circuit(_, _)
all_nodes_in_circuit(ar, id) ==
    IF IsLeaf(ar[id]) THEN {id}
    ELSE {id} \cup all_nodes_in_circuit(ar, ar[id].l)
              \cup all_nodes_in_circuit(ar, ar[id].r)

all_nodes_in_multicircuit(ar, roots) ==
    UNION { all_nodes_in_circuit(ar, roots[k]) : k \in 1..Len(roots) }

\* The structurally defined degree, recomputed from the leaves.
RECURSIVE structural_degree(_, _)
structural_degree(ar, id) ==
    LET n == ar[id]
    IN  IF n.kind \in {"BConstant", "XConstant"} THEN 0
        ELSE IF n.kind \in {"Input", "Challenge"} THEN 1
        ELSE IF n.x[1] = "Mul"
             THEN structural_degree(ar, n.l) + structural_degree(ar, n.r)
             ELSE Max(structural_degree(ar, n.l), structural_degree(ar, n.r))

\* multicircuit_degree that counts one degree too many.
multicircuit_degree_plus_one(ar, roots) ==
    IF roots = <<>> THEN -1
    ELSE 1 + CHOOSE d \in { ar[roots[k]].deg : k \in 1..Len(roots) } :
                 \A k \in 1..Len(roots) : ar[roots[k]].deg <= d

\* The maximal degree of the roots; -1 for an empty bucket.
multicircuit_degree(ar, roots) ==
    IF roots = <<>> THEN -1
    ELSE CHOOSE d \in { ar[roots[k]].deg : k \in 1..Len(roots) } :
             \A k \in 1..Len(roots) : ar[roots[k]].deg <= d

\* Whether the node's value lies in the base field: main-column inputs and
\* base-field constants do, challenges, auxiliary columns and extension-field
\* constants do not.
RECURSIVE evaluates_to_base_element(_, _)
evaluates_to_base_element(ar, id) ==
    LET n == ar[id]
    IN  CASE n.kind = "BConstant" -> TRUE
          [] n.kind = "XConstant" -> FALSE
          [] n.kind = "Challenge" -> FALSE
          [] n.kind = "Input" -> n.x[1] \in {"Main", "CurrentMain", "NextMain"}
          [] OTHER -> /\ evaluates_to_base_element(ar, n.l)
                      /\ evaluates_to_base_element(ar, n.r)

(***************************************************************************)
(* Degree lowering of one bucket (section 4.2 of the specification).       *)
(*                                                                         *)
(* One iteration of the loop substitutes one node and recomputes.  A node  *)
(* is eligible when it is no leaf, its degree exceeds target_degree - 1    *)
(* without exceeding the budget itself ("one multiplication away from      *)
(* blowing the budget"), and it is reachable from a root of the bucket.    *)
(***************************************************************************)
eligible_any_degree(ar, roots, target_degree) ==
    { i \in all_nodes_in_multicircuit(ar, roots) :
        /\ ~IsLeaf(ar[i])
        /\ ar[i].deg > target_degree - 1 }

eligible_with_leaves(ar, roots, target_degree) ==
    { i \in all_nodes_in_multicircuit(ar, roots) :
        /\ ar[i].deg > target_degree - 1
        /\ ar[i].deg <= target_degree }

eligible_nodes(ar, roots, target_degree) ==
    { i \in all_nodes_in_multicircuit(ar, roots) :
        /\ ~IsLeaf(ar[i])
        /\ ar[i].deg > target_degree - 1
        /\ ar[i].deg <= target_degree }

\* The nodes to substitute next: of the eligible nodes the one of highest
\* degree and, among ties, the first in arena insertion order.
pick_any_eligible_node(ar, roots, target_degree) ==
    eligible_nodes(ar, roots, target_degree)

pick_node_to_substitute(ar, roots, target_degree) ==
    LET candidates == eligible_nodes(ar, roots, target_degree)
        highest == { i \in candidates :
                       \A j \in candidates : ar[j].deg <= ar[i].deg }
    IN  { i \in highest : \A j \in highest : i <= j }

\* The circuit rooted at id with every occurrence of the chosen node
\* replaced by new_variable; nodes are not changed in place, the rewritten
\* ancestors are constructed (and deduplicated) anew: <<arena', id'>>.
RECURSIVE redirect_all_references_to_node(_, _, _, _)
redirect_all_references_to_node(ar, id, chosen, new_variable) ==
    IF id = chosen THEN <<ar, new_variable>>
    ELSE IF IsLeaf(ar[id]) THEN <<ar, id>>
    ELSE LET lhs == redirect_all_references_to_node(ar, ar[id].l, chosen,
                                                    new_variable)
             rhs == redirect_all_references_to_node(lhs[1], ar[id].r, chosen,
                                                    new_variable)
         IN  IF lhs[2] = ar[id].l /\ rhs[2] = ar[id].r
             THEN <<ar, id>>
             ELSE make_node(rhs[1], BinOpKey(ar[id].x[1], lhs[2], rhs[2]))

\* The same over all roots of the bucket: <<arena', roots'>>.
RECURSIVE redirect_in_multicircuit(_, _, _, _, _)
redirect_in_multicircuit(ar, done, todo, chosen, new_variable) ==
    IF todo = <<>> THEN <<ar, done>>
    ELSE LET r == redirect_all_references_to_node(ar, Head(todo), chosen,
                                                  new_variable)
         IN  IF r[2] > 0
             THEN redirect_in_multicircuit(r[1], Append(done, r[2]),
                                           Tail(todo), chosen, new_variable)
             ELSE <<ar, done>>

\* ext_table_input that hands out a single-row indicator in every bucket.
ext_table_input_single_row(bucket) == "Aux"

\* The row indicator of a fresh column of the bucket's row family.
base_table_input(bucket) == IF bucket = "tran" THEN "NextMain" ELSE "Main"
ext_table_input(bucket) == IF bucket = "tran" THEN "NextAux" ELSE "Aux"

\* Which vector the new constraint is pushed to.
space_always_main(is_base) == "main"

space_of(is_base) == IF is_base THEN "main" ELSE "aux"

\* The index of the next new column of a space: the current running count.
new_column_index_fixed(running, space) ==
    IF space = "main" THEN lowering_info.num_main_cols
    ELSE lowering_info.num_aux_cols

new_column_index(running, space) ==
    IF space = "main" THEN running.num_main_cols ELSE running.num_aux_cols

\* substitute_node that emits `new_variable + chosen_node`.
substitute_node_emits_sum(ar, roots, bucket, running, chosen) ==
    LET is_base == evaluates_to_base_element(ar, chosen)
        space == space_of(is_base)
        index == new_column_index(running, IF is_base THEN "main" ELSE "aux")
        indicator == IF is_base THEN base_table_input(bucket)
                     ELSE ext_table_input(bucket)
        leaf == make_node(ar, LeafKey("Input", <<indicator, index>>))
        rewritten == redirect_in_multicircuit(leaf[1], <<>>, roots, chosen,
                                              leaf[2])
        new_constraint == make_node(rewritten[1],
                                    BinOpKey("Add", leaf[2], chosen))
    IN  [arena |-> new_constraint[1], roots |-> rewritten[2],
         space |-> space, allocated |-> IF is_base THEN "main" ELSE "aux",
         index |-> index, constraint |-> new_constraint[2]]

\* One substitution: the state of lower_to_degree after the chosen node was
\* replaced by a fresh column in all roots and its defining constraint
\* `new_variable - chosen_node` was emitted.
substitute_node(ar, roots, bucket, running, chosen) ==
    LET is_base == evaluates_to_base_element(ar, chosen)
        space == space_of(is_base)
        index == new_column_index(running, IF is_base THEN "main" ELSE "aux")
        indicator == IF is_base THEN base_table_input(bucket)
                     ELSE ext_table_input(bucket)
        leaf == make_node(ar, LeafKey("Input", <<indicator, index>>))
        rewritten == redirect_in_multicircuit(leaf[1], <<>>, roots, chosen,
                                              leaf[2])
        new_constraint == make_node(rewritten[1],
                                    BinOpKey("Sub", leaf[2], chosen))
    IN  [arena |-> new_constraint[1], roots |-> rewritten[2],
         space |-> space, allocated |-> IF is_base THEN "main" ELSE "aux",
         index |-> index, constraint |-> new_constraint[2]]

(***************************************************************************)
(* Constraints::lower_to_target_degree_through_substitutions (lib.rs).     *)
(***************************************************************************)
\* `info.num_main_cols += ..._base_substitutions.len();`
\* `info.num_aux_cols += ..._ext_substitutions.len();`
advance_counts_not(running, base, ext) == running

advance_counts(running, base, ext) ==
    [running EXCEPT !.num_main_cols = @ + Len(base),
                    !.num_aux_cols = @ + Len(ext)]

\* The order in which the buckets are handed to lower_to_degree.
LoweringOrder_init_twice == <<"init", "init", "tran", "term">>

LoweringOrder == <<"init", "cons", "tran", "term">>

\* The fields of AllSubstitutions { main: Substitutions {..}, aux: .. } that
\* the two vectors returned for a bucket end up in.
AllSubstitutions_base_twice(subs, bucket, base, ext) ==
    [subs EXCEPT !["main"][bucket] = base, !["aux"][bucket] = base]

AllSubstitutions(subs, bucket, base, ext) ==
    [subs EXCEPT !["main"][bucket] = base, !["aux"][bucket] = ext]

NoSubstitutions == [s \in Spaces |-> [b \in BucketSet |-> <<>>]]

\* gen has generated nothing yet and has not used the substitutions.
NothingGenerated ==
    [degree_lowering_table_code |-> <<>>, rust |-> <<>>, tasm |-> <<>>,
     substitutions_used |-> <<>>, files |-> <<>>]

\* No bucket was consumed yet.
NotConsumed == [bucket |-> "none", circuits |-> <<>>, unique_ids |-> TRUE]

\* Proof::padded_height was not called.
NotCalled == [kind |-> "none", height |-> {}, error |-> ""]

NotParsed == [kind |-> "none", tokens |-> <<>>, errors |-> <<>>]

NotAssembled ==
    [kind |-> "none", labelled_instructions |-> <<>>, label_to_address |-> <<>>,
     instructions |-> <<>>, message |-> ""]

NoParse ==
    /\ parse_pc = "idle"
    /\ input = ""
    /\ parse_result = NotParsed
    /\ assembly = NotAssembled

NoProof ==
    /\ proof_pc = "idle"
    /\ proof_stream = <<>>
    /\ proof = <<>>
    /\ maybe_padded_height = NotCalled

EmptyWalk == [test |-> "none", space |-> "main", table |-> 1, column |-> 1,
              expected_column_index |-> 0, dl_width |-> [s \in Spaces |-> 0],
              ok |-> TRUE, done |-> TRUE, seen |-> <<>>]

\* The state in which lowering of the given constraints starts.
InitLowering(inputs, target_degree, counts) ==
    /\ pc = "lower"
    /\ arena = [b \in BucketSet |-> build_all(<<>>, <<>>, inputs[b])[1]]
    /\ constraints = [b \in BucketSet |-> build_all(<<>>, <<>>, inputs[b])[2]]
    /\ lowering_info = [target_degree |-> target_degree,
                        num_main_cols |-> counts[1],
                        num_aux_cols |-> counts[2]]
    /\ info = lowering_info
    /\ local_info = lowering_info
    /\ cur = 1
    /\ base_constraints = <<>>
    /\ ext_constraints = <<>>
    /\ substitutions = NoSubstitutions
    /\ new_columns = [s \in Spaces |-> <<>>]
    /\ start = [arena |-> arena, constraints |-> constraints]
    /\ run_no = 1
    /\ first_result = <<>>
    /\ consumed = NotConsumed
    /\ generated = NothingGenerated

Init ==
    /\ \E inputs \in [init : SingleRowInputs, cons : SingleRowInputs,
                       tran : DualRowInputs, term : SingleRowInputs],
          target_degree \in TargetDegrees, counts \in StartingCounts :
          InitLowering(inputs, target_degree, counts)
    /\ builder = <<>>
    /\ handles = <<>>
    /\ requests = <<>>
    /\ walk = EmptyWalk
    /\ NoProof
    /\ NoParse

\* One iteration of lower_to_degree's loop on the current bucket.
Substitute ==
    /\ pc = "lower"
    /\ multicircuit_degree(arena[LoweringOrder[cur]], constraints[LoweringOrder[cur]])
          > local_info.target_degree
    /\ \E chosen \in pick_node_to_substitute(arena[LoweringOrder[cur]],
                         constraints[LoweringOrder[cur]], local_info.target_degree) :
          LET b == LoweringOrder[cur]
              s == substitute_node(arena[b], constraints[b], b, local_info,
                                   chosen)
          IN  /\ arena' = [arena EXCEPT ![b] = s.arena]
              /\ constraints' = [constraints EXCEPT ![b] = s.roots]
              /\ new_columns' = [new_columns EXCEPT
                                    ![s.allocated] = Append(@, s.index)]
              /\ local_info' = IF s.allocated = "main"
                     THEN [local_info EXCEPT !.num_main_cols = @ + 1]
                     ELSE [local_info EXCEPT !.num_aux_cols = @ + 1]
              /\ base_constraints' = IF s.space = "main"
                     THEN Append(base_constraints, s.constraint)
                     ELSE base_constraints
              /\ ext_constraints' = IF s.space = "aux"
                     THEN Append(ext_constraints, s.constraint)
                     ELSE ext_constraints
    /\ UNCHANGED <<pc, lowering_info, info, cur, substitutions, runVars,
                   otherVars>>

\* CannotLower that returns the substitutions made so far instead.
CannotLower_returns ==
    /\ pc = "lower"
    /\ multicircuit_degree(arena[LoweringOrder[cur]], constraints[LoweringOrder[cur]])
          > local_info.target_degree
    /\ pick_node_to_substitute(arena[LoweringOrder[cur]], constraints[LoweringOrder[cur]],
                               local_info.target_degree) = {}
    /\ pc' = "lowered"
    /\ UNCHANGED <<arena, constraints, lowering_info, info, cur, local_info,
                   base_constraints, ext_constraints, substitutions,
                   new_columns, runVars, otherVars>>

\* A root still exceeds the target and no eligible node remains: fatal.
CannotLower ==
    /\ pc = "lower"
    /\ multicircuit_degree(arena[LoweringOrder[cur]], constraints[LoweringOrder[cur]])
          > local_info.target_degree
    /\ pick_node_to_substitute(arena[LoweringOrder[cur]], constraints[LoweringOrder[cur]],
                               local_info.target_degree) = {}
    /\ pc' = "aborted"
    /\ UNCHANGED <<arena, constraints, lowering_info, info, cur, local_info,
                   base_constraints, ext_constraints, substitutions,
                   new_columns, runVars, otherVars>>

\* lower_to_degree returns its two vectors; the counts are advanced and the
\* next bucket is lowered, or AllSubstitutions is returned after `term`.
ReturnSubstitutions ==
    /\ pc = "lower"
    /\ multicircuit_degree(arena[LoweringOrder[cur]], constraints[LoweringOrder[cur]])
          <= local_info.target_degree
    /\ substitutions' = AllSubstitutions(substitutions, LoweringOrder[cur],
                                         base_constraints, ext_constraints)
    /\ base_constraints' = <<>>
    /\ ext_constraints' = <<>>
    /\ IF cur < Len(LoweringOrder)
       THEN /\ info' = advance_counts(info, base_constraints, ext_constraints)
            /\ local_info' = info'
            /\ cur' = cur + 1
            /\ pc' = pc
       ELSE /\ pc' = "lowered"
            /\ UNCHANGED <<info, local_info, cur>>
    /\ UNCHANGED <<arena, constraints, lowering_info, new_columns, runVars,
                   otherVars>>

\* Constraints::combine_with_substitution_induced_constraints.
combine_ext_before_base(self, base, ext) ==
    [b \in BucketSet |-> self[b] \o ext[b] \o base[b]]

combine_with_substitution_induced_constraints(self, base, ext) ==
    [b \in BucketSet |-> self[b] \o base[b] \o ext[b]]

Combine ==
    /\ pc = "lowered"
    /\ constraints' = combine_with_substitution_induced_constraints(
                          constraints, substitutions["main"],
                          substitutions["aux"])
    /\ pc' = "combined"
    /\ UNCHANGED <<arena, lowering_info, info, cur, local_info,
                   base_constraints, ext_constraints, substitutions,
                   new_columns, runVars, otherVars>>

Next == Substitute \/ CannotLower \/ ReturnSubstitutions \/ Combine

Spec == Init /\ [][Next]_vars

\* The same input lowered a second time, from the constraints as constructed
\* and the same DegreeLoweringInfo, after the first run was recorded.
Restart ==
    /\ pc = "combined"
    /\ run_no = 1
    /\ first_result' = [arena |-> arena, constraints |-> constraints,
                        substitutions |-> substitutions,
                        new_columns |-> new_columns]
    /\ run_no' = 2
    /\ pc' = "lower"
    /\ arena' = start.arena
    /\ constraints' = start.constraints
    /\ info' = lowering_info
    /\ local_info' = lowering_info
    /\ cur' = 1
    /\ base_constraints' = <<>>
    /\ ext_constraints' = <<>>
    /\ substitutions' = NoSubstitutions
    /\ new_columns' = [s \in Spaces |-> <<>>]
    /\ UNCHANGED <<lowering_info, start, otherVars>>

NextTwice == Next \/ Restart

\* The inputs that are lowered twice: all constraint sets of the family, with
\* the two highest target degrees.
InitTwice ==
    /\ \E inputs \in [init : SingleRowInputs, cons : SingleRowInputs,
                       tran : DualRowInputs, term : SingleRowInputs],
          target_degree \in (MaxTargetDegree - 1)..MaxTargetDegree,
          counts \in StartingCounts :
          InitLowering(inputs, target_degree, counts)
    /\ builder = <<>>
    /\ handles = <<>>
    /\ requests = <<>>
    /\ walk = EmptyWalk
    /\ NoProof
    /\ NoParse

SpecTwice == InitTwice /\ [][NextTwice]_vars

(***************************************************************************)
(* Properties of degree lowering.                                          *)
(***************************************************************************)
LoweringReturned == pc \in {"lowered", "combined"}

\* The substitution constraints of a space in the order init, cons, tran,
\* term, as sequence of <<bucket, root id>>.
RECURSIVE tagged(_, _)
tagged(b, roots) ==
    IF roots = <<>> THEN <<>>
    ELSE <<<<b, Head(roots)>>>> \o tagged(b, Tail(roots))

substitution_constraints(s) ==
    tagged("init", substitutions[s]["init"])
    \o tagged("cons", substitutions[s]["cons"])
    \o tagged("tran", substitutions[s]["tran"])
    \o tagged("term", substitutions[s]["term"])

\* The column a substitution constraint `new_variable - chosen_node` defines:
\* <<row indicator, index>> of its left operand.
defined_column(c) == arena[c[1]][arena[c[1]][c[2]].l].x

space_of_indicator(ind) ==
    IF ind \in {"Main", "CurrentMain", "NextMain"} THEN "main" ELSE "aux"

starting_count(s) ==
    IF s = "main" THEN lowering_info.num_main_cols
    ELSE lowering_info.num_aux_cols

\* C1: after lower_to_target_degree_through_substitutions has returned, every
\* root of every bucket - the rewritten original roots and the substitution
\* constraints of both column spaces - has degree <= target_degree.
C1_AllRootsWithinTargetDegree ==
    LoweringReturned =>
        \A b \in BucketSet :
            LET roots == constraints[b] \o substitutions["main"][b]
                         \o substitutions["aux"][b]
            IN  \A k \in 1..Len(roots) :
                    structural_degree(arena[b], roots[k])
                        <= lowering_info.target_degree

\* A run that returned after substitutions in both column spaces and in more
\* than one bucket.
C1_Witness ==
    /\ pc = "lowered"
    /\ lowering_info.target_degree >= 2
    /\ Len(substitutions["main"]["init"]) >= 2
    /\ Len(substitutions["aux"]["tran"]) >= 1
    /\ Len(substitutions["aux"]["term"]) >= 1

\* The work left in the bucket being lowered: the number of nodes that are
\* no leaves, are reachable from a root and have degree >= target_degree.
WorkLeft ==
    Cardinality({ i \in all_nodes_in_multicircuit(arena[LoweringOrder[cur]],
                                             constraints[LoweringOrder[cur]]) :
                    /\ ~IsLeaf(arena[LoweringOrder[cur]][i])
                    /\ arena[LoweringOrder[cur]][i].deg
                          >= local_info.target_degree })

\* A step of the run is an iteration of the substitution loop.
IsSubstitution == new_columns' # new_columns

\* The run of the test degree_lowering_tables_code_can_be_generated_for_
\* test_constraints: Constraints::test_constraints() lowered with
\* degree_lowering_info().
IsTestConstraintsRun ==
    /\ \A b \in BucketSet :
          /\ start.arena[b] = build_all(<<>>, <<>>, test_constraints[b])[1]
          /\ start.constraints[b]
                = build_all(<<>>, <<>>, test_constraints[b])[2]
    /\ lowering_info = [target_degree |-> TestTargetDegree,
                        num_main_cols |-> TestNumMainCols,
                        num_aux_cols |-> TestNumAuxCols]

\* C2: degree lowering terminates.  Every iteration of the substitution loop
\* strictly decreases the work left in the bucket, a natural number, so the
\* loop cannot run forever; and the run on the test constraints with target
\* degree 4 never ends in the fatal state: it leaves each loop with no root
\* above the target.
C2_LoweringTerminates ==
    /\ [][IsSubstitution => (WorkLeft' < WorkLeft /\ WorkLeft' >= 0)]_vars
    /\ [](IsTestConstraintsRun => pc # "aborted")

\* The run on the test constraints has returned after a substitution.
C2_Witness ==
    /\ IsTestConstraintsRun
    /\ pc = "lowered"
    /\ new_columns["main"] # <<>>
    /\ C1_AllRootsWithinTargetDegree

\* C3: in each column space the number of newly allocated columns equals the
\* number of substitution constraints emitted for that space, summed over the
\* buckets (the vectors of the bucket being lowered included); each
\* constraint defines a column of its own space, and no two constraints
\* define the same column.
emitted_constraints(s) ==
    substitution_constraints(s)
    \o tagged(LoweringOrder[cur],
              IF s = "main" THEN base_constraints ELSE ext_constraints)

C3_ColumnsMatchSubstitutions ==
    \A s \in Spaces :
        LET emitted == emitted_constraints(s)
        IN  /\ Len(emitted) = Len(new_columns[s])
            /\ \A k \in 1..Len(emitted) :
                  space_of_indicator(defined_column(emitted[k])[1]) = s
            /\ \A j, k \in 1..Len(emitted) :
                  defined_column(emitted[j])[2] = defined_column(emitted[k])[2]
                      => j = k

C3_Witness ==
    /\ pc = "lowered"
    /\ Len(new_columns["main"]) >= 3
    /\ Len(new_columns["aux"]) >= 2
    /\ Len(substitutions["aux"]["tran"]) >= 1
    /\ Len(substitutions["aux"]["cons"]) >= 1

\* C4: within each column space the columns introduced by degree lowering
\* are the contiguous range that starts at the initial count, allocated in
\* the order init, cons, tran, term: the k-th substitution constraint of the
\* space, in bucket order, defines column initial count + k - 1, and every
\* bucket starts from the initial count advanced by the number of
\* substitutions of all earlier buckets.
running_count(s) ==
    IF s = "main" THEN info.num_main_cols ELSE info.num_aux_cols

C4_NewColumnsContiguous ==
    \A s \in Spaces :
        /\ pc = "lower" =>
              running_count(s)
                  = starting_count(s) + Len(substitution_constraints(s))
        /\ \A k \in 1..Len(new_columns[s]) :
              new_columns[s][k] = starting_count(s) + k - 1
        /\ \A k \in 1..Len(emitted_constraints(s)) :
              defined_column(emitted_constraints(s)[k])[2]
                  = starting_count(s) + k - 1

\* Columns of one space were allocated in three different buckets.
C4_Witness ==
    /\ pc = "lowered"
    /\ substitutions["main"]["init"] # <<>>
    /\ substitutions["main"]["cons"] # <<>>
    /\ substitutions["main"]["term"] # <<>>
    /\ substitutions["aux"]["cons"] # <<>>
    /\ substitutions["aux"]["tran"] # <<>>

\* C5: degree lowering is deterministic.  When the same constraints are
\* lowered a second time with the same DegreeLoweringInfo, the second run
\* ends with the same substitution constraints (same columns, same defining
\* expressions, same order), the same rewritten roots and the same arena as
\* the first.
C5_LoweringDeterministic ==
    (run_no = 2 /\ pc = "combined") =>
        first_result = [arena |-> arena, constraints |-> constraints,
                        substitutions |-> substitutions,
                        new_columns |-> new_columns]

\* A second run has ended after substitutions in both column spaces.
C5_Witness ==
    /\ run_no = 2
    /\ pc = "combined"
    /\ Len(new_columns["main"]) >= 2
    /\ Len(new_columns["aux"]) >= 1

(***************************************************************************)
(* Column registry (triton-vm/src/table/table_column.rs).                  *)
(*                                                                         *)
(* An enum is the sequence of its variants in declaration order, which is  *)
(* the order of iter(); a variant's value `as usize` is the number of      *)
(* variants declared before it.                                            *)
(***************************************************************************)
ProgramBaseTableColumn ==
    << "Address", "Instruction", "LookupMultiplicity", "IndexInChunk",
       "MaxMinusIndexInChunkInv", "IsHashInputPadding", "IsTablePadding" >>

ProgramExtTableColumn ==
    << "InstructionLookupServerLogDerivative",
       "PrepareChunkRunningEvaluation", "SendChunkRunningEvaluation" >>

ProcessorBaseTableColumn ==
    << "CLK", "IsPadding", "IP", "CI", "NIA", "IB0", "IB1", "IB2", "IB3",
       "IB4", "IB5", "IB6", "JSP", "JSO", "JSD", "ST0", "ST1", "ST2", "ST3",
       "ST4", "ST5", "ST6", "ST7", "ST8", "ST9", "ST10", "ST11", "ST12",
       "ST13", "ST14", "ST15", "OpStackPointer", "HV0", "HV1", "HV2", "HV3",
       "HV4", "HV5", "ClockJumpDifferenceLookupMultiplicity" >>

ProcessorExtTableColumn ==
    << "InputTableEvalArg", "OutputTableEvalArg",
       "InstructionLookupClientLogDerivative", "OpStackTablePermArg",
       "RamTablePermArg", "JumpStackTablePermArg", "HashInputEvalArg",
       "HashDigestEvalArg", "SpongeEvalArg", "U32LookupClientLogDerivative",
       "ClockJumpDifferenceLookupServerLogDerivative" >>

OpStackBaseTableColumn ==
    << "CLK", "IB1ShrinkStack", "StackPointer", "FirstUnderflowElement" >>

OpStackExtTableColumn ==
    << "RunningProductPermArg",
       "ClockJumpDifferenceLookupClientLogDerivative" >>

RamBaseTableColumn ==
    << "CLK", "InstructionType", "RamPointer", "RamValue",
       "InverseOfRampDifference", "BezoutCoefficientPolynomialCoefficient0",
       "BezoutCoefficientPolynomialCoefficient1" >>

RamExtTableColumn ==
    << "RunningProductOfRAMP", "FormalDerivative", "BezoutCoefficient0",
       "BezoutCoefficient1", "RunningProductPermArg",
       "ClockJumpDifferenceLookupClientLogDerivative" >>

JumpStackBaseTableColumn ==
    << "CLK", "CI", "JSP", "JSO", "JSD" >>

JumpStackExtTableColumn ==
    << "RunningProductPermArg",
       "ClockJumpDifferenceLookupClientLogDerivative" >>

HashBaseTableColumn ==
    << "Mode", "CI", "RoundNumber", "State0HighestLkIn", "State0MidHighLkIn",
       "State0MidLowLkIn", "State0LowestLkIn", "State1HighestLkIn",
       "State1MidHighLkIn", "State1MidLowLkIn", "State1LowestLkIn",
       "State2HighestLkIn", "State2MidHighLkIn", "State2MidLowLkIn",
       "State2LowestLkIn", "State3HighestLkIn", "State3MidHighLkIn",
       "State3MidLowLkIn", "State3LowestLkIn", "State0HighestLkOut",
       "State0MidHighLkOut", "State0MidLowLkOut", "State0LowestLkOut",
       "State1HighestLkOut", "State1MidHighLkOut", "State1MidLowLkOut",
       "State1LowestLkOut", "State2HighestLkOut", "State2MidHighLkOut",
       "State2MidLowLkOut", "State2LowestLkOut", "State3HighestLkOut",
       "State3MidHighLkOut", "State3MidLowLkOut", "State3LowestLkOut",
       "State4", "State5", "State6", "State7", "State8", "State9", "State10",
       "State11", "State12", "State13", "State14", "State15", "State0Inv",
       "State1Inv", "State2Inv", "State3Inv", "Constant0", "Constant1",
       "Constant2", "Constant3", "Constant4", "Constant5", "Constant6",
       "Constant7", "Constant8", "Constant9", "Constant10", "Constant11",
       "Constant12", "Constant13", "Constant14", "Constant15" >>

HashExtTableColumn ==
    << "ReceiveChunkRunningEvaluation", "HashInputRunningEvaluation",
       "HashDigestRunningEvaluation", "SpongeRunningEvaluation",
       "CascadeState0HighestClientLogDerivative",
       "CascadeState0MidHighClientLogDerivative",
       "CascadeState0MidLowClientLogDerivative",
       "CascadeState0LowestClientLogDerivative",
       "CascadeState1HighestClientLogDerivative",
       "CascadeState1MidHighClientLogDerivative",
       "CascadeState1MidLowClientLogDerivative",
       "CascadeState1LowestClientLogDerivative",
       "CascadeState2HighestClientLogDerivative",
       "CascadeState2MidHighClientLogDerivative",
       "CascadeState2MidLowClientLogDerivative",
       "CascadeState2LowestClientLogDerivative",
       "CascadeState3HighestClientLogDerivative",
       "CascadeState3MidHighClientLogDerivative",
       "CascadeState3MidLowClientLogDerivative",
       "CascadeState3LowestClientLogDerivative" >>

CascadeBaseTableColumn ==
    << "IsPadding", "LookInHi", "LookInLo", "LookOutHi", "LookOutLo",
       "LookupMultiplicity" >>

CascadeExtTableColumn ==
    << "HashTableServerLogDerivative", "LookupTableClientLogDerivative" >>

LookupBaseTableColumn ==
    << "IsPadding", "LookIn", "LookOut", "LookupMultiplicity" >>

LookupExtTableColumn ==
    << "CascadeTableServerLogDerivative", "PublicEvaluationArgument" >>

U32BaseTableColumn ==
    << "CopyFlag", "Bits", "BitsMinus33Inv", "CI", "LHS", "LhsInv", "RHS",
       "RhsInv", "Result", "LookupMultiplicity" >>

U32ExtTableColumn ==
    << "LookupServerLogDerivative" >>

\* The generated enums of degree_lowering_table: one variant per column that
\* degree lowering allocated in the space.
DegreeLoweringBaseTableColumn(n) ==
    [i \in 1..n |-> "DegreeLoweringBaseCol" \o ToString(i - 1)]

DegreeLoweringExtTableColumn(n) ==
    [i \in 1..n |-> "DegreeLoweringExtCol" \o ToString(i - 1)]

\* The fixed table order.
Tables ==
    << "Program", "Processor", "OpStack", "Ram", "JumpStack", "Hash",
       "Cascade", "Lookup", "U32", "DegreeLowering" >>

NativeTables == { t \in 1..Len(Tables) : Tables[t] # "DegreeLowering" }

\* XBaseTableColumn::iter() / XExtTableColumn::iter() of the t-th table.
base_columns_iter(t, dl_width) ==
    CASE Tables[t] = "Program" -> ProgramBaseTableColumn
      [] Tables[t] = "Processor" -> ProcessorBaseTableColumn
      [] Tables[t] = "OpStack" -> OpStackBaseTableColumn
      [] Tables[t] = "Ram" -> RamBaseTableColumn
      [] Tables[t] = "JumpStack" -> JumpStackBaseTableColumn
      [] Tables[t] = "Hash" -> HashBaseTableColumn
      [] Tables[t] = "Cascade" -> CascadeBaseTableColumn
      [] Tables[t] = "Lookup" -> LookupBaseTableColumn
      [] Tables[t] = "U32" -> U32BaseTableColumn
      [] OTHER -> DegreeLoweringBaseTableColumn(dl_width)

ext_columns_iter(t, dl_width) ==
    CASE Tables[t] = "Program" -> ProgramExtTableColumn
      [] Tables[t] = "Processor" -> ProcessorExtTableColumn
      [] Tables[t] = "OpStack" -> OpStackExtTableColumn
      [] Tables[t] = "Ram" -> RamExtTableColumn
      [] Tables[t] = "JumpStack" -> JumpStackExtTableColumn
      [] Tables[t] = "Hash" -> HashExtTableColumn
      [] Tables[t] = "Cascade" -> CascadeExtTableColumn
      [] Tables[t] = "Lookup" -> LookupExtTableColumn
      [] Tables[t] = "U32" -> U32ExtTableColumn
      [] OTHER -> DegreeLoweringExtTableColumn(dl_width)

\* x_table::BASE_WIDTH and x_table::EXT_WIDTH of a native table: its column
\* count.
BASE_WIDTH(t) == Len(base_columns_iter(t, 0))
EXT_WIDTH(t) == Len(ext_columns_iter(t, 0))

\* master_table::X_TABLE_START and EXT_X_TABLE_START: the sum of the widths
\* of all tables preceding the t-th in the fixed table order.
RECURSIVE TABLE_START(_)
TABLE_START(t) ==
    IF t = 1 THEN 0 ELSE TABLE_START(t - 1) + BASE_WIDTH(t - 1)

RECURSIVE EXT_TABLE_START(_)
EXT_TABLE_START(t) ==
    IF t = 1 THEN 0 ELSE EXT_TABLE_START(t - 1) + EXT_WIDTH(t - 1)

\* The position of a variant in its enum, counted from one.
declaration_position(enum, column) ==
    CHOOSE i \in 1..Len(enum) : enum[i] = column

\* fn base_table_index(&self) -> usize { (*self) as usize }
base_table_index_from_one(enum, column) ==
    declaration_position(enum, column)

base_table_index(enum, column) == declaration_position(enum, column) - 1

\* fn master_base_table_index(&self) -> usize
\*     { X_TABLE_START + self.base_table_index() }
master_base_table_index(t, enum, column) ==
    TABLE_START(t) + base_table_index(enum, column)

\* fn ext_table_index(&self) -> usize { (*self) as usize }
ext_table_index_from_one(enum, column) ==
    declaration_position(enum, column)

ext_table_index(enum, column) == declaration_position(enum, column) - 1

\* fn master_ext_table_index(&self) -> usize
\*     { EXT_X_TABLE_START + self.ext_table_index() }
master_ext_table_index_base_start(t, enum, column) ==
    TABLE_START(t) + ext_table_index(enum, column)

master_ext_table_index(t, enum, column) ==
    EXT_TABLE_START(t) + ext_table_index(enum, column)

(***************************************************************************)
(* The tests of table_column.rs as step-by-step walks: every step is one   *)
(* assert_eq!; a failing assertion ends the test (walk.ok = FALSE).        *)
(***************************************************************************)
\* Where the nested `for` loops stand after the column at (t, c): the next
\* column of the table or the first column of the next table that has one;
\* <<0, 0>> when the loops are over.
next_column(t, c, widths) ==
    IF c < widths[t] THEN <<t, c + 1>>
    ELSE LET later == { u \in (t + 1)..Len(widths) : widths[u] > 0 }
         IN  IF later = {} THEN <<0, 0>>
             ELSE <<CHOOSE u \in later : \A v \in later : u <= v, 1>>

base_widths(dl_width) ==
    [t \in 1..Len(Tables) |-> Len(base_columns_iter(t, dl_width))]

ext_widths(dl_width) ==
    [t \in 1..Len(Tables) |-> Len(ext_columns_iter(t, dl_width))]

\* The walk after one assert_eq!(expected_column_index, index) and
\* `expected_column_index += 1`.
visit_column(w, index, widths) ==
    LET passed == (w.expected_column_index = index)
        next == next_column(w.table, w.column, widths)
    IN  [w EXCEPT !.ok = passed,
                  !.seen = Append(@, index),
                  !.expected_column_index = @ + 1,
                  !.table = IF next[1] = 0 THEN w.table ELSE next[1],
                  !.column = IF next[1] = 0 THEN w.column ELSE next[2],
                  !.done = (~passed) \/ next[1] = 0]

\* The lowering and the builder do not take part in the column tests.
NoLowering ==
    /\ pc = "idle"
    /\ arena = [b \in BucketSet |-> <<>>]
    /\ constraints = [b \in BucketSet |-> <<>>]
    /\ lowering_info = [target_degree |-> TestTargetDegree,
                        num_main_cols |-> TestNumMainCols,
                        num_aux_cols |-> TestNumAuxCols]
    /\ info = lowering_info
    /\ local_info = lowering_info
    /\ cur = 1
    /\ base_constraints = <<>>
    /\ ext_constraints = <<>>
    /\ substitutions = NoSubstitutions
    /\ new_columns = [s \in Spaces |-> <<>>]
    /\ start = [arena |-> arena, constraints |-> constraints]
    /\ run_no = 1
    /\ first_result = <<>>
    /\ consumed = NotConsumed
    /\ generated = NothingGenerated

ColumnTests ==
    { "master_base_table_is_contiguous", "master_ext_table_is_contiguous",
      "column_max_bound_matches_table_width" }

InitColumns ==
    /\ NoLowering
    /\ NoProof
    /\ NoParse
    /\ builder = <<>>
    /\ handles = <<>>
    /\ requests = <<>>
    /\ \E test \in ColumnTests,
          dl_width \in [Spaces -> 0..MaxDegreeLoweringColumns] :
          walk = [test |-> test, space |-> "main", table |-> 1, column |-> 1,
                  expected_column_index |-> 0, dl_width |-> dl_width,
                  ok |-> TRUE, done |-> FALSE, seen |-> <<>>]

loweringVars_but_proof ==
    <<pc, arena, constraints, lowering_info, info, cur, local_info,
      base_constraints, ext_constraints, substitutions, new_columns, runVars,
      consumed, generated>>

loweringVars == <<loweringVars_but_proof, proofVars, parseVars>>

\* One iteration of the loops of master_base_table_is_contiguous.
VisitBaseColumn ==
    /\ walk.test = "master_base_table_is_contiguous"
    /\ ~walk.done
    /\ LET enum == base_columns_iter(walk.table, walk.dl_width["main"])
           column == enum[walk.column]
       IN  walk' = visit_column(walk,
                       master_base_table_index(walk.table, enum, column),
                       base_widths(walk.dl_width["main"]))
    /\ UNCHANGED <<loweringVars, builder, handles, requests>>

\* One iteration of the loops of master_ext_table_is_contiguous.
VisitExtColumn ==
    /\ walk.test = "master_ext_table_is_contiguous"
    /\ ~walk.done
    /\ LET enum == ext_columns_iter(walk.table, walk.dl_width["aux"])
           column == enum[walk.column]
       IN  walk' = visit_column(walk,
                       master_ext_table_index(walk.table, enum, column),
                       ext_widths(walk.dl_width["aux"]))
    /\ UNCHANGED <<loweringVars, builder, handles, requests>>

\* The walk after one assert_eq!(width, last index + 1) of
\* column_max_bound_matches_table_width: the nine BASE_WIDTH assertions come
\* first, the nine EXT_WIDTH assertions after them.
check_width(w, width, last_index) ==
    LET passed == (width = last_index + 1)
        last_table == (w.table + 1 \notin NativeTables)
    IN  [w EXCEPT !.ok = passed,
                  !.seen = Append(@, <<width, last_index>>),
                  !.table = IF last_table THEN 1 ELSE w.table + 1,
                  !.space = IF last_table THEN "aux" ELSE w.space,
                  !.done = (~passed) \/ (last_table /\ w.space = "aux")]

CheckBaseWidth ==
    /\ walk.test = "column_max_bound_matches_table_width"
    /\ ~walk.done
    /\ walk.space = "main"
    /\ LET enum == base_columns_iter(walk.table, 0)
       IN  walk' = check_width(walk, BASE_WIDTH(walk.table),
                               base_table_index(enum, enum[Len(enum)]))
    /\ UNCHANGED <<loweringVars, builder, handles, requests>>

CheckExtWidth ==
    /\ walk.test = "column_max_bound_matches_table_width"
    /\ ~walk.done
    /\ walk.space = "aux"
    /\ LET enum == ext_columns_iter(walk.table, 0)
       IN  walk' = check_width(walk, EXT_WIDTH(walk.table),
                               ext_table_index(enum, enum[Len(enum)]))
    /\ UNCHANGED <<loweringVars, builder, handles, requests>>

NextColumns ==
    VisitBaseColumn \/ VisitExtColumn \/ CheckBaseWidth \/ CheckExtWidth

SpecColumns == InitColumns /\ [][NextColumns]_vars

(***************************************************************************)
(* Properties of the column registry.                                      *)
(***************************************************************************)
native_base_width == SumSeq([t \in 1..Cardinality(NativeTables) |-> BASE_WIDTH(t)])
native_ext_width == SumSeq([t \in 1..Cardinality(NativeTables) |-> EXT_WIDTH(t)])

counts_from_zero(seen) == \A k \in 1..Len(seen) : seen[k] = k - 1

\* C6: the master base table is contiguous.  Iterating the base columns of
\* the tables in the order Program, Processor, OpStack, Ram, JumpStack, Hash,
\* Cascade, Lookup, U32, DegreeLowering, no assertion of the test fails and
\* the master_base_table_index values met are 0, 1, 2, ... without gap or
\* repeat, total_width of them when the walk is over; every column's index
\* is the sum of the widths of the preceding tables plus its local index,
\* and the degree-lowering columns come after every native column.
C6_MasterBaseTableContiguous ==
    walk.test = "master_base_table_is_contiguous" =>
        LET dl == walk.dl_width["main"]
            widths == base_widths(dl)
        IN  /\ walk.ok
            /\ counts_from_zero(walk.seen)
            /\ walk.done => Len(walk.seen) = native_base_width + dl
            /\ \A t \in 1..Len(Tables) :
                  \A c \in 1..widths[t] :
                      master_base_table_index(t, base_columns_iter(t, dl),
                                              base_columns_iter(t, dl)[c])
                          = SumSeq(SubSeq(widths, 1, t - 1)) + c - 1
            /\ \A c \in 1..dl :
                  master_base_table_index(Len(Tables),
                          base_columns_iter(Len(Tables), dl),
                          base_columns_iter(Len(Tables), dl)[c])
                      >= native_base_width

\* The walk over the base columns is over, degree-lowering columns included.
C6_Witness ==
    /\ walk.test = "master_base_table_is_contiguous"
    /\ walk.done
    /\ walk.ok
    /\ walk.dl_width["main"] >= 2
    /\ Len(walk.seen) = native_base_width + walk.dl_width["main"]

\* C7: the master extension table is contiguous.  Iterating the extension
\* columns of the tables in the same fixed order, no assertion of the test
\* fails and the master_ext_table_index values met are 0, 1, 2, ... without
\* gap or repeat, total_width of them when the walk is over; so
\* master_ext_table_index is injective over all (table, column) pairs, and
\* the degree-lowering columns come last.
C7_MasterExtTableContiguous ==
    walk.test = "master_ext_table_is_contiguous" =>
        LET dl == walk.dl_width["aux"]
            widths == ext_widths(dl)
            index(t, c) == master_ext_table_index(t, ext_columns_iter(t, dl),
                                                  ext_columns_iter(t, dl)[c])
            pairs == { p \in (1..Len(Tables)) \X (1..(native_ext_width + dl)) :
                         p[2] <= widths[p[1]] }
        IN  /\ walk.ok
            /\ counts_from_zero(walk.seen)
            /\ walk.done => Len(walk.seen) = native_ext_width + dl
            /\ \A p, q \in pairs :
                  index(p[1], p[2]) = index(q[1], q[2]) => p = q
            /\ { index(p[1], p[2]) : p \in pairs }
                  = 0..(native_ext_width + dl - 1)
            /\ \A c \in 1..dl : index(Len(Tables), c) >= native_ext_width

\* The walk over the extension columns is over, degree-lowering columns
\* included.
C7_Witness ==
    /\ walk.test = "master_ext_table_is_contiguous"
    /\ walk.done
    /\ walk.ok
    /\ walk.dl_width["aux"] >= 2
    /\ Len(walk.seen) = native_ext_width + walk.dl_width["aux"]

\* C8: for each of the nine functional tables and both column spaces the
\* declared width equals the local index of the last enumerated column plus
\* one (no assertion of the test fails), and the local indices of the
\* enumerated columns are 0, 1, ..., width - 1 in declaration order.
C8_WidthMatchesLastColumn ==
    walk.test = "column_max_bound_matches_table_width" =>
        /\ walk.ok
        /\ \A k \in 1..Len(walk.seen) : walk.seen[k][1] = walk.seen[k][2] + 1
        /\ \A t \in NativeTables :
              /\ \A c \in 1..BASE_WIDTH(t) :
                    base_table_index(base_columns_iter(t, 0),
                                     base_columns_iter(t, 0)[c]) = c - 1
              /\ \A c \in 1..EXT_WIDTH(t) :
                    ext_table_index(ext_columns_iter(t, 0),
                                    ext_columns_iter(t, 0)[c]) = c - 1

\* All eighteen width assertions were made.
C8_Witness ==
    /\ walk.test = "column_max_bound_matches_table_width"
    /\ walk.done
    /\ walk.ok
    /\ Len(walk.seen) = 2 * Cardinality(NativeTables)

(***************************************************************************)
(* The builder API driven call by call: every call asks one builder for a  *)
(* leaf or for an operation on two nodes it handed out before, and gets a  *)
(* node back.  The builder is fresh or has built small_init_constraints.   *)
(***************************************************************************)
BuilderLeaves ==
    { LeafKey("Input", <<"Main", 0>>), LeafKey("Challenge", <<"id", Ch1>>),
      LeafKey("BConstant", <<"b", 16>>) }

BinaryOperations == {"Add", "Sub", "Mul"}

InitBuilder ==
    /\ NoLowering
    /\ builder \in { <<>>, build_all(<<>>, <<>>, small_init_constraints)[1] }
    /\ handles = <<>>
    /\ requests = <<>>
    /\ walk = EmptyWalk
    /\ NoProof
    /\ NoParse

\* circuit_builder.input(..)
BuilderInput ==
    /\ Len(handles) < MaxBuilderCalls
    /\ \E key \in { k \in BuilderLeaves : k.kind = "Input" } :
          /\ builder' = make_node(builder, key)[1]
          /\ handles' = Append(handles, make_node(builder, key)[2])
          /\ requests' = Append(requests, key)
    /\ UNCHANGED <<loweringVars, walk>>

\* circuit_builder.challenge(..)
BuilderChallenge ==
    /\ Len(handles) < MaxBuilderCalls
    /\ \E key \in { k \in BuilderLeaves : k.kind = "Challenge" } :
          /\ builder' = make_node(builder, key)[1]
          /\ handles' = Append(handles, make_node(builder, key)[2])
          /\ requests' = Append(requests, key)
    /\ UNCHANGED <<loweringVars, walk>>

\* circuit_builder.b_constant(..)
BuilderConstant ==
    /\ Len(handles) < MaxBuilderCalls
    /\ \E key \in { k \in BuilderLeaves : k.kind = "BConstant" } :
          /\ builder' = make_node(builder, key)[1]
          /\ handles' = Append(handles, make_node(builder, key)[2])
          /\ requests' = Append(requests, key)
    /\ UNCHANGED <<loweringVars, walk>>

\* lhs + rhs, lhs - rhs, lhs * rhs on two nodes handed out before.
BuilderBinaryOperation ==
    /\ Len(handles) < MaxBuilderCalls
    /\ \E op \in BinaryOperations, i, j \in 1..Len(handles) :
          LET key == BinOpKey(op, handles[i], handles[j])
          IN  /\ builder' = make_node(builder, key)[1]
              /\ handles' = Append(handles, make_node(builder, key)[2])
              /\ requests' = Append(requests, key)
    /\ UNCHANGED <<loweringVars, walk>>

NextBuilder ==
    BuilderInput \/ BuilderChallenge \/ BuilderConstant
        \/ BuilderBinaryOperation

SpecBuilder == InitBuilder /\ [][NextBuilder]_vars

(***************************************************************************)
(* Properties of the circuit arena.                                        *)
(***************************************************************************)
\* C9: node construction deduplicates.  A request for a node that is
\* structurally equal to a node of the arena (same operator and operand
\* identities, or the same leaf) returns that node: the node handed out has
\* the requested structure, equal requests get the same node id, and no two
\* distinct nodes of the arena are structurally equal.
C9_ConstructionDeduplicates ==
    /\ \A i, j \in 1..Len(builder) :
          KeyOf(builder[i]) = KeyOf(builder[j]) => i = j
    /\ \A i \in 1..Len(requests) : KeyOf(builder[handles[i]]) = requests[i]
    /\ \A i, j \in 1..Len(requests) :
          requests[i] = requests[j] => handles[i] = handles[j]

\* a * b was built twice from the same builder.
C9_Witness ==
    \E i, j \in 1..Len(requests) :
        /\ i < j
        /\ requests[i] = requests[j]
        /\ requests[i].kind = "BinOp"
        /\ requests[i].x[1] = "Mul"
        /\ requests[i].l # requests[i].r
        /\ handles[i] = handles[j]
        /\ Cardinality({ k \in 1..Len(builder) :
                           KeyOf(builder[k]) = requests[i] }) = 1

\* C10: at every point of degree lowering, after every substitution, the
\* memoized degree of every node of every arena equals the structurally
\* defined degree: 0 for constants, 1 for inputs and challenges, the maximum
\* of the operands' degrees for Add and Sub, their sum for Mul.
C10_MemoizedDegreeIsStructural ==
    \A b \in BucketSet :
        \A i \in 1..Len(arena[b]) :
            arena[b][i].deg = structural_degree(arena[b], i)

\* After a substitution in its bucket, (a + b) * (a + b) with the shared
\* operand a + b has the memoized degree 2.
C10_Witness ==
    \E b \in BucketSet :
        /\ pc = "lowered"
        /\ substitutions["main"][b] # <<>>
        /\ \E i \in 1..Len(arena[b]) :
              /\ arena[b][i].kind = "BinOp"
              /\ arena[b][i].x[1] = "Mul"
              /\ arena[b][i].l = arena[b][i].r
              /\ arena[b][arena[b][i].l].kind = "BinOp"
              /\ arena[b][arena[b][i].l].x[1] = "Add"
              /\ arena[b][i].deg = 2

(***************************************************************************)
(* Constraints::init / cons / tran / term (lib.rs): consume and            *)
(* assert_unique_ids.                                                      *)
(*                                                                         *)
(* A plain circuit is detached from the arena: <<id, kind, payload,        *)
(* operands>>, with the operands plain circuits themselves (<<>> for a     *)
(* leaf).                                                                  *)
(***************************************************************************)
\* ConstraintCircuitMonad::consume
RECURSIVE consume_id_is_degree(_, _)
consume_id_is_degree(ar, id) ==
    IF IsLeaf(ar[id]) THEN <<ar[id].deg, ar[id].kind, ar[id].x, <<>>>>
    ELSE <<ar[id].deg, ar[id].kind, ar[id].x,
           <<consume_id_is_degree(ar, ar[id].l),
             consume_id_is_degree(ar, ar[id].r)>>>>

RECURSIVE consume(_, _)
consume(ar, id) ==
    IF IsLeaf(ar[id]) THEN <<id, ar[id].kind, ar[id].x, <<>>>>
    ELSE <<id, ar[id].kind, ar[id].x,
           <<consume(ar, ar[id].l), consume(ar, ar[id].r)>>>>

\* All nodes of a plain circuit, the root included.
RECURSIVE nodes_of(_)
nodes_of(circuit) ==
    IF circuit[4] = <<>> THEN {circuit}
    ELSE {circuit} \cup nodes_of(circuit[4][1]) \cup nodes_of(circuit[4][2])

\* ConstraintCircuit::assert_unique_ids: TRUE when it returns, FALSE when it
\* fails because two different nodes carry the same id.
assert_unique_ids(circuits) ==
    LET nodes == UNION { nodes_of(circuits[k]) : k \in 1..Len(circuits) }
    IN  \A m, n \in nodes : m[1] = n[1] => m = n

\* fn consume(constraints: &[ConstraintCircuitMonad<II>])
consume_all(ar, roots) == [k \in 1..Len(roots) |-> consume(ar, roots[k])]

\* A call of init(), cons(), tran() or term() on the constraints, before
\* lowering, after lowering or after combining (lowering borrows the
\* constraints mutably while it runs).
Consume ==
    /\ \/ pc = "lower" /\ cur = 1 /\ new_columns = [s \in Spaces |-> <<>>]
       \/ pc \in {"lowered", "combined"}
    /\ \E b \in BucketSet :
          LET circuits == consume_all(arena[b], constraints[b])
          IN  /\ consumed' = [bucket |-> b, circuits |-> circuits,
                              unique_ids |-> assert_unique_ids(circuits)]
              /\ pc' = IF assert_unique_ids(circuits) THEN pc ELSE "aborted"
    /\ UNCHANGED <<arena, constraints, lowering_info, info, cur, local_info,
                   base_constraints, ext_constraints, substitutions,
                   new_columns, runVars, builder, handles, requests, walk,
                   generated, proofVars, parseVars>>

NextConsume == Next \/ Consume

SpecConsume == Init /\ [][NextConsume]_vars

\* C11: consume() of a bucket of constraints that were built through the
\* builder API, whatever lowering and combining they went through, yields
\* circuits on which assert_unique_ids does not fail: no call ends in the
\* fatal state, and no two different nodes of the consumed circuits carry
\* the same id.
C11_ConsumedIdsUnique ==
    /\ consumed.unique_ids
    /\ LET nodes == UNION { nodes_of(consumed.circuits[k]) :
                              k \in 1..Len(consumed.circuits) }
       IN  \A m, n \in nodes : m # n => m[1] # n[1]

\* A bucket was consumed after lowering and combining, with substitution
\* constraints among its circuits and a node shared by several of them.
C11_Witness ==
    /\ pc = "combined"
    /\ consumed.bucket # "none"
    /\ consumed.unique_ids
    /\ Len(consumed.circuits) > Len(start.constraints[consumed.bucket])
    /\ \E j, k \in 1..Len(consumed.circuits) :
          /\ j < k
          /\ \E n \in nodes_of(consumed.circuits[j]) \cap nodes_of(consumed.circuits[k]) :
                n[4] # <<>>

\* C12: combine_with_substitution_induced_constraints returns, for each of
\* the four buckets, the bucket's roots followed by the main-column
\* substitution constraints of that bucket followed by its aux-column
\* substitution constraints, each group in its order: the result's length is
\* the sum of the three lengths and position by position nothing is dropped,
\* duplicated or taken from another bucket.
C12_CombineConcatenatesPerBucket ==
    [][(pc = "lowered" /\ pc' = "combined") =>
          \A b \in BucketSet :
              LET self == constraints[b]
                  base == substitutions["main"][b]
                  ext == substitutions["aux"][b]
                  combined == constraints'[b]
              IN  /\ Len(combined) = Len(self) + Len(base) + Len(ext)
                  /\ \A k \in 1..Len(self) : combined[k] = self[k]
                  /\ \A k \in 1..Len(base) :
                        combined[Len(self) + k] = base[k]
                  /\ \A k \in 1..Len(ext) :
                        combined[Len(self) + Len(base) + k] = ext[k]
                  /\ arena'[b] = arena[b]]_vars

\* The constraints were combined, with roots and substitution constraints of
\* both column spaces in one bucket and of one space only in another.
C12_Witness ==
    /\ pc = "combined"
    /\ \E b \in BucketSet :
          /\ start.constraints[b] # <<>>
          /\ Len(substitutions["main"][b]) >= 1
          /\ Len(substitutions["aux"][b]) >= 1
          /\ Len(constraints[b]) = Len(start.constraints[b])
                + Len(substitutions["main"][b]) + Len(substitutions["aux"][b])
    /\ \E b \in BucketSet :
          /\ start.constraints[b] # <<>>
          /\ substitutions["main"][b] # <<>>
          /\ substitutions["aux"][b] = <<>>

(***************************************************************************)
(* Proof::padded_height (triton-vm/src/proof.rs).                          *)
(*                                                                         *)
(* The modules proof_stream and proof_item are not part of the sources at  *)
(* hand.  A proof item is [kind, value]; a proof stream is encoded as the  *)
(* number of its items followed, per item, by the item's discriminant and  *)
(* its value.  A usize is the set of the positions of its one bits, so     *)
(* that 2^h is {h} for every h.                                            *)
(***************************************************************************)
MaxProofItems == 3
MaxProofDataLen == 3

\* usize::BITS of the 64-bit targets.
UsizeBits == 64

\* Values a Log2PaddedHeight item carries (a u32).
Log2PaddedHeights == {7, 8, UsizeBits - 1, UsizeBits, UsizeBits + 8}

Log2PaddedHeight(h) == [kind |-> "Log2PaddedHeight", value |-> h]
MerkleRoot(root) == [kind |-> "MerkleRoot", value |-> root]

ProofItems ==
    { Log2PaddedHeight(h) : h \in Log2PaddedHeights }
        \cup { MerkleRoot(root) : root \in {0, 1} }

discriminant(kind) == IF kind = "MerkleRoot" THEN 0 ELSE 1

\* impl From<ProofStream> for Proof
RECURSIVE encode_items(_)
encode_items(items) ==
    IF items = <<>> THEN <<>>
    ELSE <<discriminant(Head(items).kind), Head(items).value>>
             \o encode_items(Tail(items))

into_proof(items) == <<Len(items)>> \o encode_items(items)

\* The items of the encoded stream `data`, which holds pairs of discriminant
\* and value: [ok, items].
RECURSIVE decode_items(_)
decode_items(data) ==
    IF data = <<>> THEN [ok |-> TRUE, items |-> <<>>]
    ELSE IF Len(data) < 2 \/ data[1] \notin {0, 1}
         THEN [ok |-> FALSE, items |-> <<>>]
    ELSE LET rest == decode_items(SubSeq(data, 3, Len(data)))
             item == IF data[1] = discriminant("MerkleRoot")
                     THEN MerkleRoot(data[2])
                     ELSE Log2PaddedHeight(data[2])
         IN  IF rest.ok THEN [ok |-> TRUE, items |-> <<item>> \o rest.items]
             ELSE rest

\* ProofStream::try_from(&Proof): [ok, items].
try_from(data) ==
    IF data = <<>> THEN [ok |-> FALSE, items |-> <<>>]
    ELSE LET decoded == decode_items(Tail(data))
         IN  IF decoded.ok /\ Len(decoded.items) = Head(data) THEN decoded
             ELSE [ok |-> FALSE, items |-> <<>>]

\* .filter_map(|item| item.try_into_log2_padded_height().ok())
RECURSIVE log_2_padded_heights(_)
log_2_padded_heights(items) ==
    IF items = <<>> THEN <<>>
    ELSE IF Head(items).kind = "Log2PaddedHeight"
         THEN <<Head(items).value>> \o log_2_padded_heights(Tail(items))
         ELSE log_2_padded_heights(Tail(items))

Ok(height) == [kind |-> "Ok", height |-> height, error |-> ""]
Err(error) == [kind |-> "Err", height |-> {}, error |-> error]
Panic == [kind |-> "panic", height |-> {}, error |-> ""]

\* `1 << log_2_padded_height` on a usize: the results the builds produce.
\* A shift by usize::BITS or more panics when overflow checks are compiled
\* in and shifts by the amount modulo usize::BITS when they are not.
shl_one(amount) ==
    IF amount < UsizeBits THEN { Ok({amount}) }
    ELSE { Panic, Ok({amount % UsizeBits}) }

\* Proof::padded_height: the set of its possible results.
padded_height_without_heights_is_one(data) ==
    LET stream == try_from(data)
        heights == log_2_padded_heights(stream.items)
    IN  IF ~stream.ok THEN { Err("DecodingError") }
        ELSE IF heights = <<>> THEN { Ok({0}) }
        ELSE IF Len(heights) > 1 THEN { Err("TooManyLog2PaddedHeights") }
        ELSE shl_one(heights[1])

padded_height_first_height_wins(data) ==
    LET stream == try_from(data)
        heights == log_2_padded_heights(stream.items)
    IN  IF ~stream.ok THEN { Err("DecodingError") }
        ELSE IF heights = <<>> THEN { Err("NoLog2PaddedHeight") }
        ELSE shl_one(heights[1])

padded_height(data) ==
    LET stream == try_from(data)
        heights == log_2_padded_heights(stream.items)
    IN  IF ~stream.ok THEN { Err("DecodingError") }
        ELSE IF heights = <<>> THEN { Err("NoLog2PaddedHeight") }
        ELSE IF Len(heights) > 1 THEN { Err("TooManyLog2PaddedHeights") }
        ELSE shl_one(heights[1])

\* Arbitrary proof data, as decode hands it to a verifier.
RECURSIVE SeqsUpTo(_, _)
SeqsUpTo(S, n) ==
    IF n = 0 THEN { <<>> }
    ELSE SeqsUpTo(S, n - 1)
           \cup { Append(q, x) : q \in SeqsUpTo(S, n - 1), x \in S }

ArbitraryProofData == SeqsUpTo({0, 1, 2, UsizeBits + 2}, MaxProofDataLen)

\* A test builds a proof stream, or the proof comes from elsewhere.
InitProof ==
    /\ NoLowering
    /\ builder = <<>>
    /\ handles = <<>>
    /\ requests = <<>>
    /\ walk = EmptyWalk
    /\ NoParse
    /\ proof_stream = <<>>
    /\ maybe_padded_height = NotCalled
    /\ \/ proof_pc = "stream" /\ proof = <<>>
       \/ proof_pc = "proof" /\ proof \in ArbitraryProofData

\* proof_stream.enqueue(item)
Enqueue ==
    /\ proof_pc = "stream"
    /\ Len(proof_stream) < MaxProofItems
    /\ \E item \in ProofItems : proof_stream' = Append(proof_stream, item)
    /\ UNCHANGED <<proof_pc, proof, maybe_padded_height, loweringVars_but_proof,
                   builder, handles, requests, walk, parseVars>>

\* let proof: Proof = proof_stream.into();
IntoProof ==
    /\ proof_pc = "stream"
    /\ proof' = into_proof(proof_stream)
    /\ proof_pc' = "proof"
    /\ UNCHANGED <<proof_stream, maybe_padded_height, loweringVars_but_proof,
                   builder, handles, requests, walk, parseVars>>

\* let maybe_padded_height = proof.padded_height();
PaddedHeight ==
    /\ proof_pc = "proof"
    /\ maybe_padded_height' \in padded_height(proof)
    /\ proof_pc' = "returned"
    /\ UNCHANGED <<proof_stream, proof, loweringVars_but_proof,
                   builder, handles, requests, walk, parseVars>>

NextProof == Enqueue \/ IntoProof \/ PaddedHeight

SpecProof == InitProof /\ [][NextProof]_vars

(***************************************************************************)
(* Properties of Proof::padded_height.                                     *)
(***************************************************************************)
\* The positions of the Log2PaddedHeight items of a stream.
log2_positions(items) ==
    { k \in 1..Len(items) : items[k].kind = "Log2PaddedHeight" }

\* The proof is the encoding of the stream the test enqueued.
ProofIsOfStream == proof = into_proof(proof_stream)

\* C13: padded_height returns the error NoLog2PaddedHeight for every proof
\* whose proof stream holds no Log2PaddedHeight item: for the proof made of
\* a stream to which no such item was enqueued, and for any proof data that
\* decodes to a stream without such an item.
C13_NoPaddedHeightGivesErr ==
    proof_pc = "returned" =>
        /\ (ProofIsOfStream /\ log2_positions(proof_stream) = {})
              => maybe_padded_height = Err("NoLog2PaddedHeight")
        /\ (try_from(proof).ok /\ log2_positions(try_from(proof).items) = {})
              => maybe_padded_height = Err("NoLog2PaddedHeight")

\* The proof of a stream that holds only a Merkle root.
C13_Witness ==
    /\ proof_pc = "returned"
    /\ ProofIsOfStream
    /\ Len(proof_stream) = 1
    /\ proof_stream[1].kind = "MerkleRoot"
    /\ maybe_padded_height = Err("NoLog2PaddedHeight")

\* C14: padded_height returns the error TooManyLog2PaddedHeights for every
\* proof whose proof stream holds two or more Log2PaddedHeight items,
\* wherever they sit in the stream and whether or not their values are
\* equal.
C14_MultiplePaddedHeightsGiveErr ==
    proof_pc = "returned" =>
        /\ (ProofIsOfStream /\ Cardinality(log2_positions(proof_stream)) >= 2)
              => maybe_padded_height = Err("TooManyLog2PaddedHeights")
        /\ (try_from(proof).ok
               /\ Cardinality(log2_positions(try_from(proof).items)) >= 2)
              => maybe_padded_height = Err("TooManyLog2PaddedHeights")

\* The proof of the stream Log2PaddedHeight(8), MerkleRoot, Log2PaddedHeight(7).
C14_Witness ==
    /\ proof_pc = "returned"
    /\ ProofIsOfStream
    /\ Len(proof_stream) = 3
    /\ proof_stream[1] = Log2PaddedHeight(8)
    /\ proof_stream[2].kind = "MerkleRoot"
    /\ proof_stream[3] = Log2PaddedHeight(7)
    /\ maybe_padded_height = Err("TooManyLog2PaddedHeights")

\* C15: padded_height is a recoverable error boundary: for every proof,
\* whatever field elements it holds and whatever log2 padded height its
\* stream carries, it returns Ok(height) or Err(error) and never aborts.
C15_PaddedHeightNeverAborts ==
    proof_pc = "returned" => maybe_padded_height.kind \in {"Ok", "Err"}

\* C16: for every proof whose proof stream holds exactly one
\* Log2PaddedHeight item, with value h, at any position, padded_height
\* returns Ok(2^h).
C16_OnePaddedHeightGivesPowerOfTwo ==
    (proof_pc = "returned" /\ ProofIsOfStream) =>
        \A k \in 1..Len(proof_stream) :
            log2_positions(proof_stream) = {k}
                => maybe_padded_height = Ok({proof_stream[k].value})

(***************************************************************************)
(* The parser of Triton assembly (triton-isa/src/parser.rs).               *)
(*                                                                         *)
(* A source text is a string; `SubSeq(s, i, Len(s))` is the slice `&s[i..]`*)
(* the nom parsers hand to one another.  A parser takes the remaining      *)
(* input and returns nom's IResult: Ok((rest, output)), a recoverable      *)
(* Err::Error that `alt` and `many0` absorb, or an Err::Failure (`cut`)    *)
(* that ends the parse.                                                    *)
(***************************************************************************)

\* The characters of the source texts and their classes
\* (char::is_whitespace, is_lowercase, is_alphabetic, is_numeric).
is_whitespace(c) == c \in {" ", "\t", "\n", "\r"}

is_lowercase(c) ==
    c \in {"a", "b", "c", "d", "e", "f", "g", "h", "i", "j", "k", "l", "m",
           "n", "o", "p", "q", "r", "s", "t", "u", "v", "w", "x", "y", "z"}

is_alphabetic(c) ==
    \/ is_lowercase(c)
    \/ c \in {"A", "B", "C", "D", "E", "F", "G", "H", "I", "J", "K", "L", "M",
              "N", "O", "P", "Q", "R", "S", "T", "U", "V", "W", "X", "Y", "Z"}

is_numeric(c) == c \in {"0", "1", "2", "3", "4", "5", "6", "7", "8", "9"}

\* type ParseResult<Out> = IResult<&str, Out, VerboseError<&str>>
ParseOk(s, out) == [kind |-> "Ok", rest |-> s, out |-> out]
ParseError(s, context) == [kind |-> "Error", rest |-> s, context |-> context]
ParseFailure(s, context) == [kind |-> "Failure", rest |-> s, context |-> context]

\* `let y = value;` followed by body(y): the value is computed once.
bind(value, body(_)) == CHOOSE v \in { body(y) : y \in {value} } : TRUE

\* `let (s, out) = parser(s)?;` followed by the rest of the function: an
\* error of the parser is returned as it is.
and_then(result, continue(_)) ==
    bind(result, LAMBDA r : IF r.kind = "Ok" THEN continue(r) ELSE r)

\* alt((p, q)): q is tried when p fails recoverably; a Failure of p is final.
\* alt of more than two parsers is alt((p1, alt((p2, ..)))).
alt(result, other) ==
    bind(result, LAMBDA r : IF r.kind = "Error" THEN other ELSE r)

\* nom::bytes::complete::take_while, take_while1 and tag; nom::combinator::eof.
take_while(cond(_), s) ==
    bind(CHOOSE m \in 0..Len(s) :
             /\ \A k \in 1..m : cond(SubSeq(s, k, k))
             /\ m = Len(s) \/ ~cond(SubSeq(s, m + 1, m + 1)),
         LAMBDA n : ParseOk(SubSeq(s, n + 1, Len(s)), SubSeq(s, 1, n)))

take_while1(cond(_), s) ==
    bind(take_while(cond, s),
         LAMBDA taken : IF taken.out = "" THEN ParseError(s, "") ELSE taken)

tag(token, s) ==
    IF Len(token) <= Len(s) /\ SubSeq(s, 1, Len(token)) = token
    THEN ParseOk(SubSeq(s, Len(token) + 1, Len(s)), token)
    ELSE ParseError(s, "")

eof(s) == IF s = "" THEN ParseOk(s, "") ELSE ParseError(s, "")

\* Parse whitespace characters (can be none).
whitespace0(s) == ParseOk(take_while(is_whitespace, s).rest, "")

comment_or_whitespace0_without_comments(s) == whitespace0(s)

\* many0(alt((comment1, whitespace1))): each round takes one comment (up to,
\* not including, the linebreak) or one run of whitespace, until neither
\* parser matches.
RECURSIVE comment_or_whitespace0(_)
comment_or_whitespace0(s) ==
    LET is_linebreak(c) == c = "\r" \/ c = "\n"
        not_linebreak(c) == ~is_linebreak(c)
        comment1(t) ==
            and_then(tag("//", t), LAMBDA slashes :
            ParseOk(take_while(not_linebreak, slashes.rest).rest, ""))
        whitespace1(t) ==
            and_then(take_while1(is_whitespace, t), LAMBDA space :
            ParseOk(space.rest, ""))
    IN  bind(alt(comment1(s), whitespace1(s)), LAMBDA one :
        IF one.kind = "Ok" THEN comment_or_whitespace0(one.rest)
        ELSE ParseOk(s, ""))

\* alt((eof, many1(alt((comment1, whitespace1))))): at least one comment or
\* run of whitespace, or the end of the input.  Every round of many1 takes
\* at least one character, so one round happened iff input was taken.
comment_or_whitespace1(s) ==
    IF s = "" THEN eof(s)
    ELSE bind(comment_or_whitespace0(s), LAMBDA munched :
         IF munched.rest = s THEN ParseError(s, "") ELSE munched)

\* `token0(tok)` parses the string `tok` and 0 or more comments or whitespace.
token0(token, s) ==
    and_then(tag(token, s), LAMBDA tok : comment_or_whitespace0(tok.rest))

\* `token1(tok)` parses the string `tok` and at least one comment or
\* whitespace, or eof.
token1(token, s) ==
    and_then(tag(token, s), LAMBDA tok : comment_or_whitespace1(tok.rest))

\* Numbers are kept as decimal strings, so that an i128, a u64 and a usize
\* keep their width: digit, without_leading_zeros, less_than and minus are
\* the value of a digit, the canonical string, `<` and `-` (on canonical
\* strings, minus for a >= b).
digit(c) == CHOOSE v \in 0..9 : SubSeq("0123456789", v + 1, v + 1) = c

without_leading_zeros(d) ==
    bind(CHOOSE m \in 0..(Len(d) - 1) :
             /\ \A k \in 1..m : SubSeq(d, k, k) = "0"
             /\ m = Len(d) - 1 \/ SubSeq(d, m + 1, m + 1) # "0",
         LAMBDA n : SubSeq(d, n + 1, Len(d)))

less_than(a, b) ==
    \/ Len(a) < Len(b)
    \/ /\ Len(a) = Len(b)
       /\ \E i \in 1..Len(a) :
              /\ SubSeq(a, 1, i - 1) = SubSeq(b, 1, i - 1)
              /\ digit(SubSeq(a, i, i)) < digit(SubSeq(b, i, i))

\* The digits of a - b from the i-th last digit on.
RECURSIVE minus_with_borrow(_, _, _, _)
minus_with_borrow(a, b, i, borrow) ==
    IF i > Len(a) THEN ""
    ELSE bind(digit(SubSeq(a, Len(a) + 1 - i, Len(a) + 1 - i))
                  - (IF i > Len(b) THEN 0
                     ELSE digit(SubSeq(b, Len(b) + 1 - i, Len(b) + 1 - i)))
                  - borrow,
              LAMBDA d :
              IF d < 0
              THEN minus_with_borrow(a, b, i + 1, 1)
                       \o SubSeq("0123456789", d + 11, d + 11)
              ELSE minus_with_borrow(a, b, i + 1, 0)
                       \o SubSeq("0123456789", d + 1, d + 1))

minus(a, b) == without_leading_zeros(minus_with_borrow(a, b, 1, 0))

\* Parse a label address.  This is used in "<label>:" and in "call <label>".
label_addr(s_orig) ==
    LET is_label_start_char(c) == is_alphabetic(c) \/ c = "_"
        is_label_char(c) == is_label_start_char(c) \/ is_numeric(c) \/ c = "-"
    IN  and_then(take_while1(is_label_start_char, s_orig), LAMBDA addr_part_0 :
        and_then(take_while(is_label_char, addr_part_0.rest), LAMBDA addr_part_1 :
        ParseOk(addr_part_1.rest, addr_part_0.out \o addr_part_1.out)))

\* instruction::ALL_INSTRUCTION_NAMES: the names of the instruction set, one
\* per instruction an_instruction parses.
ALL_INSTRUCTION_NAMES ==
    {"pop", "push", "divine", "dup", "swap",
     "halt", "nop", "skiz", "call", "return", "recurse", "recurse_or_return",
     "assert",
     "read_mem", "write_mem",
     "hash", "assert_vector", "sponge_init", "sponge_absorb",
     "sponge_absorb_mem", "sponge_squeeze",
     "add", "addi", "mul", "invert", "eq",
     "split", "lt", "and", "xor", "log_2_floor", "pow", "div_mod", "pop_count",
     "xx_add", "xx_mul", "x_invert", "xb_mul",
     "read_io", "write_io",
     "merkle_step", "merkle_step_mem", "xx_dot_step", "xb_dot_step"}

is_instruction_name(s) == s \in ALL_INSTRUCTION_NAMES

\* A label definition: InstructionToken::Label(addr, label_s).
label_accepts_instruction_names(label_s) ==
    and_then(label_addr(label_s), LAMBDA addr :
    and_then(whitespace0(addr.rest), LAMBDA space :
    and_then(token0(":", space.rest), LAMBDA colon :
    ParseOk(colon.rest,
            [token |-> "Label", label |-> addr.out, token_str |-> label_s]))))

label(label_s) ==
    and_then(label_addr(label_s), LAMBDA addr :
    \* whitespace between label and ':' is allowed
    and_then(whitespace0(addr.rest), LAMBDA space :
    and_then(token0(":", space.rest), LAMBDA colon :
    IF is_instruction_name(addr.out)
    THEN ParseFailure(label_s, "label cannot be named after instruction")
    ELSE ParseOk(colon.rest,
                 [token |-> "Label", label |-> addr.out, token_str |-> label_s]))))

\* `call <label>` and `[<label>]`: AnInstruction::Call(addr).
call_instruction(s) ==
    LET call_syntax ==
            \* require space before called label
            and_then(token1("call", s), LAMBDA s_label :
            and_then(label_addr(s_label.rest), LAMBDA addr :
            \* require space after called label
            and_then(comment_or_whitespace1(addr.rest), LAMBDA after :
            ParseOk(after.rest, addr.out))))
        bracket_syntax ==
            and_then(tag("[", s), LAMBDA opening :
            and_then(label_addr(opening.rest), LAMBDA addr :
            and_then(token0("]", addr.rest), LAMBDA closing :
            ParseOk(closing.rest, addr.out))))
    IN  and_then(alt(call_syntax, bracket_syntax), LAMBDA called :
        IF is_instruction_name(called.out)
        THEN ParseFailure(called.rest, "label cannot be named after instruction")
        ELSE ParseOk(called.rest, [name |-> "call", arg |-> called.out]))

\* One instruction with its argument: AnInstruction as its name and the
\* argument it carries ("" for none).  The names that share a prefix are
\* told apart by token1, which wants whitespace, a comment or eof after the
\* name.
an_instruction(s) ==
    LET instruction(name) ==
            and_then(token1(name, s), LAMBDA keyword :
            ParseOk(keyword.rest, [name |-> name, arg |-> ""]))
        stack_register(t) ==
            and_then(take_while1(is_numeric, t), LAMBDA n :  \* digit1
            IF n.out \notin {"0", "1", "2", "3", "4", "5", "6", "7", "8", "9",
                             "10", "11", "12", "13", "14", "15"}
            THEN ParseError(n.rest,
                            "using an out-of-bounds stack register (0-15 exist)")
            ELSE and_then(comment_or_whitespace1(n.rest), LAMBDA after :
                 ParseOk(after.rest, "ST" \o n.out)))
        number_of_words(t) ==
            and_then(take_while1(is_numeric, t), LAMBDA n :  \* digit1
            IF n.out \notin {"1", "2", "3", "4", "5"}
            THEN ParseError(n.rest, "using an out-of-bounds argument (1-5 allowed)")
            \* require space after element
            ELSE and_then(comment_or_whitespace1(n.rest), LAMBDA after :
                 ParseOk(after.rest, "N" \o n.out)))
        field_element(s_orig) ==
            LET i128_MAX == "170141183460469231731687303715884105727"
                quotient == "18446744069414584321"  \* BFieldElement::P
            IN  bind(token0("-", s_orig), LAMBDA negative :
                and_then(take_while1(is_numeric,  \* digit1
                                     IF negative.kind = "Ok" THEN negative.rest
                                     ELSE s_orig), LAMBDA digits :
                and_then(comment_or_whitespace1(digits.rest), LAMBDA after :
                bind(without_leading_zeros(digits.out), LAMBDA n :
                IF less_than(i128_MAX, n)
                THEN ParseError(after.rest, "out-of-bounds constant")
                ELSE IF ~less_than(n, quotient)
                THEN ParseError(s_orig, "out-of-bounds constant")
                ELSE IF negative.kind = "Ok" /\ n # "0"
                THEN ParseOk(after.rest, minus(quotient, n))
                ELSE ParseOk(after.rest, n)))))
        with_argument(name, argument(_)) ==
            and_then(token1(name, s), LAMBDA keyword :
            and_then(argument(keyword.rest), LAMBDA arg :
            ParseOk(arg.rest, [name |-> name, arg |-> arg.out])))
        \* OpStack manipulation
        pop == with_argument("pop", number_of_words)
        push == with_argument("push", field_element)
        divine == with_argument("divine", number_of_words)
        dup == with_argument("dup", stack_register)
        swap == with_argument("swap", stack_register)
        opstack_manipulation == alt(pop, alt(push, alt(divine, alt(dup, swap))))
        \* Control flow
        control_flow ==
            alt(instruction("nop"), alt(instruction("skiz"),
            alt(call_instruction(s), alt(instruction("return"),
            instruction("halt")))))
        \* Memory access
        memory_access ==
            alt(with_argument("read_mem", number_of_words),
                with_argument("write_mem", number_of_words))
        \* Hashing-related instructions
        hashing_related ==
            alt(instruction("hash"), alt(instruction("sponge_init"),
            instruction("sponge_squeeze")))
        \* Arithmetic on stack instructions
        base_field_arithmetic_on_stack ==
            alt(instruction("mul"), alt(instruction("invert"), instruction("eq")))
        bitwise_arithmetic_on_stack ==
            alt(instruction("split"), alt(instruction("lt"),
            alt(instruction("and"), alt(instruction("xor"),
            alt(instruction("log_2_floor"), alt(instruction("pow"),
            alt(instruction("div_mod"), instruction("pop_count"))))))))
        extension_field_arithmetic_on_stack ==
            alt(instruction("xx_add"), alt(instruction("xx_mul"),
            alt(instruction("x_invert"), instruction("xb_mul"))))
        arithmetic_on_stack ==
            alt(base_field_arithmetic_on_stack,
            alt(bitwise_arithmetic_on_stack,
            extension_field_arithmetic_on_stack))
        \* Read/write
        read_write ==
            alt(with_argument("read_io", number_of_words),
                with_argument("write_io", number_of_words))
        \* Many-in-One
        many_to_one ==
            alt(instruction("xx_dot_step"), instruction("xb_dot_step"))
        syntax_ambiguous ==
            alt(instruction("recurse_or_return"), alt(instruction("recurse"),
            alt(instruction("assert_vector"), alt(instruction("assert"),
            alt(instruction("sponge_absorb_mem"), alt(instruction("sponge_absorb"),
            alt(with_argument("addi", field_element), alt(instruction("add"),
            alt(instruction("merkle_step_mem"),
            instruction("merkle_step"))))))))))
    IN  alt(opstack_manipulation, alt(control_flow, alt(memory_access,
        alt(hashing_related, alt(arithmetic_on_stack, alt(read_write,
        alt(many_to_one, syntax_ambiguous)))))))

\* type_hint with `range_end < range_start` in place of `range_end <= range_start`.
type_hint_accepts_empty_range(s_type_hint) ==
    LET usize_MAX == "18446744073709551615"
        parse_str_to_usize(t) ==
            IF t = "" \/ less_than(usize_MAX, without_leading_zeros(t))
            THEN ParseFailure(t, "integer conversion failure")
            ELSE ParseOk(t, without_leading_zeros(t))
        is_type_hint_variable_name_start_character(c) ==
            (is_alphabetic(c) /\ is_lowercase(c)) \/ c = "_"
        is_type_hint_variable_name_character(c) ==
            is_type_hint_variable_name_start_character(c) \/ is_numeric(c)
        is_type_hint_type_name_start_character(c) == is_alphabetic(c)
        is_type_hint_type_name_character(c) ==
            is_type_hint_type_name_start_character(c) \/ is_numeric(c) \/ c = "_"
        type_hint_variable_name(t) ==
            and_then(take_while1(is_type_hint_variable_name_start_character, t),
                     LAMBDA variable_name_start :
            and_then(take_while(is_type_hint_variable_name_character,
                                variable_name_start.rest),
                     LAMBDA variable_name_end :
            and_then(whitespace0(variable_name_end.rest), LAMBDA space :
            ParseOk(space.rest,
                    variable_name_start.out \o variable_name_end.out))))
        type_hint_type_name(t) ==
            bind(token0(":", t), LAMBDA colon :
            IF colon.kind # "Ok" THEN ParseOk(t, "")
            ELSE and_then(take_while1(is_type_hint_type_name_start_character,
                                      colon.rest),
                          LAMBDA type_name_start :
                 and_then(take_while(is_type_hint_type_name_character,
                                     type_name_start.rest),
                          LAMBDA type_name_end :
                 and_then(whitespace0(type_name_end.rest), LAMBDA space :
                 ParseOk(space.rest,
                         type_name_start.out \o type_name_end.out)))))
        type_hint_starting_index(t) ==
            and_then(token0("=", t), LAMBDA equals :
            and_then(token0("stack[", equals.rest), LAMBDA stack :
            and_then(take_while(is_numeric, stack.rest), LAMBDA digits :
            and_then(parse_str_to_usize(digits.out), LAMBDA range_start :
            and_then(whitespace0(digits.rest), LAMBDA space :
            ParseOk(space.rest, range_start.out))))))
        type_hint_ending_index(t) ==
            bind(token0("..", t), LAMBDA dots :
            IF dots.kind # "Ok" THEN ParseOk(t, "")
            ELSE and_then(take_while(is_numeric, dots.rest), LAMBDA digits :
                 and_then(parse_str_to_usize(digits.out), LAMBDA range_end :
                 ParseOk(digits.rest, range_end.out))))
    IN  and_then(token1("hint", s_type_hint), LAMBDA hint :
        and_then(type_hint_variable_name(hint.rest), LAMBDA variable_name :
        and_then(type_hint_type_name(variable_name.rest), LAMBDA type_name :
        and_then(type_hint_starting_index(type_name.rest), LAMBDA range_start :
        and_then(type_hint_ending_index(range_start.rest), LAMBDA maybe_range_end :
        and_then(whitespace0(maybe_range_end.rest), LAMBDA space :
        and_then(token0("]", space.rest), LAMBDA bracket :
        IF /\ maybe_range_end.out # ""
           /\ less_than(maybe_range_end.out, range_start.out)
        THEN ParseFailure(bracket.rest,
                          "range end must be greater than range start")
        ELSE ParseOk(bracket.rest,
                 [token |-> "TypeHint",
                  type_hint |->
                      [starting_index |-> range_start.out,
                       length |-> IF maybe_range_end.out = "" THEN "1"
                                  ELSE minus(maybe_range_end.out, range_start.out),
                       type_name |-> type_name.out,
                       variable_name |-> variable_name.out],
                  token_str |-> s_type_hint]))))))))

\* Parse one type hint:
\*     hint <variable_name>[: <type_name>] = stack[<range_start>[..<range_end>]]
\* An absent type name and an absent range end (None) are "".
type_hint(s_type_hint) ==
    LET usize_MAX == "18446744073709551615"
        parse_str_to_usize(t) ==
            IF t = "" \/ less_than(usize_MAX, without_leading_zeros(t))
            THEN ParseFailure(t, "integer conversion failure")
            ELSE ParseOk(t, without_leading_zeros(t))
        is_type_hint_variable_name_start_character(c) ==
            (is_alphabetic(c) /\ is_lowercase(c)) \/ c = "_"
        is_type_hint_variable_name_character(c) ==
            is_type_hint_variable_name_start_character(c) \/ is_numeric(c)
        is_type_hint_type_name_start_character(c) == is_alphabetic(c)
        is_type_hint_type_name_character(c) ==
            is_type_hint_type_name_start_character(c) \/ is_numeric(c) \/ c = "_"
        type_hint_variable_name(t) ==
            and_then(take_while1(is_type_hint_variable_name_start_character, t),
                     LAMBDA variable_name_start :
            and_then(take_while(is_type_hint_variable_name_character,
                                variable_name_start.rest),
                     LAMBDA variable_name_end :
            and_then(whitespace0(variable_name_end.rest), LAMBDA space :
            ParseOk(space.rest,
                    variable_name_start.out \o variable_name_end.out))))
        type_hint_type_name(t) ==
            bind(token0(":", t), LAMBDA colon :
            IF colon.kind # "Ok" THEN ParseOk(t, "")
            ELSE and_then(take_while1(is_type_hint_type_name_start_character,
                                      colon.rest),
                          LAMBDA type_name_start :
                 and_then(take_while(is_type_hint_type_name_character,
                                     type_name_start.rest),
                          LAMBDA type_name_end :
                 and_then(whitespace0(type_name_end.rest), LAMBDA space :
                 ParseOk(space.rest,
                         type_name_start.out \o type_name_end.out)))))
        type_hint_starting_index(t) ==
            and_then(token0("=", t), LAMBDA equals :
            and_then(token0("stack[", equals.rest), LAMBDA stack :
            and_then(take_while(is_numeric, stack.rest), LAMBDA digits :
            and_then(parse_str_to_usize(digits.out), LAMBDA range_start :
            and_then(whitespace0(digits.rest), LAMBDA space :
            ParseOk(space.rest, range_start.out))))))
        type_hint_ending_index(t) ==
            bind(token0("..", t), LAMBDA dots :
            IF dots.kind # "Ok" THEN ParseOk(t, "")
            ELSE and_then(take_while(is_numeric, dots.rest), LAMBDA digits :
                 and_then(parse_str_to_usize(digits.out), LAMBDA range_end :
                 ParseOk(digits.rest, range_end.out))))
    IN  and_then(token1("hint", s_type_hint), LAMBDA hint :
        and_then(type_hint_variable_name(hint.rest), LAMBDA variable_name :
        and_then(type_hint_type_name(variable_name.rest), LAMBDA type_name :
        and_then(type_hint_starting_index(type_name.rest), LAMBDA range_start :
        and_then(type_hint_ending_index(range_start.rest), LAMBDA maybe_range_end :
        and_then(whitespace0(maybe_range_end.rest), LAMBDA space :
        and_then(token0("]", space.rest), LAMBDA bracket :
        IF /\ maybe_range_end.out # ""
           /\ ~less_than(range_start.out, maybe_range_end.out)
        THEN ParseFailure(bracket.rest,
                          "range end must be greater than range start")
        ELSE ParseOk(bracket.rest,
                 [token |-> "TypeHint",
                  type_hint |->
                      [starting_index |-> range_start.out,
                       length |-> IF maybe_range_end.out = "" THEN "1"
                                  ELSE minus(maybe_range_end.out, range_start.out),
                       type_name |-> type_name.out,
                       variable_name |-> variable_name.out],
                  token_str |-> s_type_hint]))))))))

\* many0(alt((label, labelled_instruction, breakpoint, type_hint))): tokens
\* are taken until none of the four parsers matches; a Failure ends it.
RECURSIVE instruction_tokens(_)
instruction_tokens(s) ==
    LET labelled_instruction ==
            and_then(an_instruction(s), LAMBDA instr :
            ParseOk(instr.rest, [token |-> "Instruction",
                                 instruction |-> instr.out, token_str |-> s]))
        breakpoint ==
            and_then(token1("break", s), LAMBDA break :
            ParseOk(break.rest, [token |-> "Breakpoint", token_str |-> s]))
    IN  bind(alt(label(s), alt(labelled_instruction, alt(breakpoint, type_hint(s)))),
             LAMBDA one :
        IF one.kind = "Error" THEN ParseOk(s, <<>>)
        ELSE IF one.kind = "Failure" THEN one
        ELSE IF one.rest = s THEN ParseError(s, "")
        ELSE and_then(instruction_tokens(one.rest), LAMBDA more :
             ParseOk(more.rest, <<one.out>> \o more.out)))

tokenize(s) ==
    and_then(comment_or_whitespace0(s), LAMBDA leading :
    and_then(instruction_tokens(leading.rest), LAMBDA instructions :
    bind(eof(instructions.rest), LAMBDA at_end :
    IF at_end.kind # "Ok"
    THEN ParseError(at_end.rest, "expecting label, instruction or eof")
    ELSE ParseOk(at_end.rest, instructions.out))))

\* The calls whose label is not among the defined ones
\* (missing_labels: HashSet<InstructionToken>, one element per call token).
identify_missing_labels_once_per_label(instructions, seen_labels) ==
    { instructions[i] : i \in
        { i \in DOMAIN instructions :
            /\ instructions[i].token = "Instruction"
            /\ instructions[i].instruction.name = "call"
            /\ instructions[i].instruction.arg \notin seen_labels
            /\ \A j \in 1..(i - 1) :
                   \/ instructions[j].token # "Instruction"
                   \/ instructions[j].instruction # instructions[i].instruction } }

identify_missing_labels(instructions, seen_labels) ==
    { instructions[i] : i \in
        { i \in DOMAIN instructions :
            /\ instructions[i].token = "Instruction"
            /\ instructions[i].instruction.name = "call"
            /\ instructions[i].instruction.arg \notin seen_labels } }

\* The VerboseError of the label check: one (token_str, Context) entry per
\* element of the two sets, the duplicates first.  The sets are HashSets, so
\* the entries of either kind come in any order.
errors_for_duplicate_and_missing_labels(duplicate_labels, missing_labels) ==
    LET orders(tokens) ==
            { q \in [1..Cardinality(tokens) -> tokens] :
                \A i, j \in DOMAIN q : i # j => q[i] # q[j] }
        errors(order, context) ==
            [i \in DOMAIN order |->
                [at |-> order[i].token_str, kind |-> "Context",
                 context |-> context]]
    IN  { errors(duplicates, "duplicate label") \o errors(missing, "missing label") :
            duplicates \in orders(duplicate_labels),
            missing \in orders(missing_labels) }

\* The results ensure_no_missing_or_duplicate_labels can return, which are
\* the results of parse for a tokenizable input.  seen_labels maps a label to
\* its first definition; a later definition of a seen label puts the first
\* definition and itself into duplicate_labels.
ensure_no_missing_or_duplicate_labels_later_only(instructions) ==
    LET is_label(i) == instructions[i].token = "Label"
        seen_before(i) ==
            { j \in 1..(i - 1) :
                is_label(j) /\ instructions[j].label = instructions[i].label }
        duplicate_labels ==
            { instructions[i] : i \in
                { i \in DOMAIN instructions :
                    is_label(i) /\ seen_before(i) # {} } }
        seen_labels ==
            { instructions[i].label : i \in
                { i \in DOMAIN instructions : is_label(i) } }
        missing_labels == identify_missing_labels(instructions, seen_labels)
    IN  IF duplicate_labels = {} /\ missing_labels = {}
        THEN { [kind |-> "Ok", tokens |-> instructions, errors |-> <<>>] }
        ELSE { [kind |-> "Err", tokens |-> <<>>, errors |-> errors] :
                 errors \in errors_for_duplicate_and_missing_labels(
                                duplicate_labels, missing_labels) }

ensure_no_missing_or_duplicate_labels(instructions) ==
    LET is_label(i) == instructions[i].token = "Label"
        seen_before(i) ==
            { j \in 1..(i - 1) :
                is_label(j) /\ instructions[j].label = instructions[i].label }
        first_occurrence(i) ==
            instructions[CHOOSE j \in seen_before(i) :
                             \A k \in seen_before(i) : j <= k]
        duplicate_labels ==
            UNION { {first_occurrence(i), instructions[i]} : i \in
                      { i \in DOMAIN instructions :
                          is_label(i) /\ seen_before(i) # {} } }
        seen_labels ==
            { instructions[i].label : i \in
                { i \in DOMAIN instructions : is_label(i) } }
        missing_labels == identify_missing_labels(instructions, seen_labels)
    IN  IF duplicate_labels = {} /\ missing_labels = {}
        THEN { [kind |-> "Ok", tokens |-> instructions, errors |-> <<>>] }
        ELSE { [kind |-> "Err", tokens |-> <<>>, errors |-> errors] :
                 errors \in errors_for_duplicate_and_missing_labels(
                                duplicate_labels, missing_labels) }

\* parse that returns the tokens without the check of the labels.
parse_without_label_check(input_text) ==
    bind(tokenize(input_text), LAMBDA instructions :
    IF instructions.kind # "Ok"
    THEN { [kind |-> "Err", tokens |-> <<>>,
            errors |-> << [at |-> instructions.rest, kind |-> "Nom",
                           context |-> IF instructions.kind = "Failure"
                                       THEN "Fail" ELSE "Eof"],
                          [at |-> instructions.rest, kind |-> "Context",
                           context |-> instructions.context] >>] }
    ELSE { [kind |-> "Ok", tokens |-> instructions.out, errors |-> <<>>] })

\* Parse a program: tokenize, then check the labels.  A failed tokenize
\* gives the VerboseError of nom: the root error and the context around it.
parse(input_text) ==
    bind(tokenize(input_text), LAMBDA instructions :
    IF instructions.kind # "Ok"
    THEN { [kind |-> "Err", tokens |-> <<>>,
            errors |-> << [at |-> instructions.rest, kind |-> "Nom",
                           context |-> IF instructions.kind = "Failure"
                                       THEN "Fail" ELSE "Eof"],
                          [at |-> instructions.rest, kind |-> "Context",
                           context |-> instructions.context] >>] }
    ELSE ensure_no_missing_or_duplicate_labels(instructions.out))

(***************************************************************************)
(* The parser tests: a source text is put together from a few pieces and   *)
(* handed to parse.                                                        *)
(***************************************************************************)
MaxPieces == 3

RECURSIVE Texts(_, _)
Texts(pieces, n) ==
    IF n = 0 THEN { "" }
    ELSE Texts(pieces, n - 1)
           \cup { text \o piece : text \in Texts(pieces, n - 1), piece \in pieces }

\* tests::Whitespace as displayed: Space, Tab, CarriageReturn, LineFeed,
\* CarriageReturnLineFeed, Comment.
Whitespace == {" ", "\t", "\r", "\n", "\r\n", " // comment\n"}

\* A comment that is not ended, a slash that starts no comment and an
\* instruction join the whitespace.
WhitespacePieces == Whitespace \cup {"//", "/", "halt"}

\* Label definitions, calls in both syntaxes and an instruction, with the
\* names of tests::parse_program_label.
ProgramPieces ==
    {"foo: ", "bar :", "call foo ", "[bar]", "pop 1 ",
     "pop:", "call pop\n", "[pop]", "pops:", "_call: ", "[_call]"}

ParseTest(texts) ==
    /\ NoLowering
    /\ builder = <<>>
    /\ handles = <<>>
    /\ requests = <<>>
    /\ walk = EmptyWalk
    /\ NoProof
    /\ parse_pc = "input"
    /\ input \in texts
    /\ parse_result = NotParsed
    /\ assembly = NotAssembled

InitParse == ParseTest(Texts(ProgramPieces, MaxPieces))

InitParseWhitespace == ParseTest(Texts(WhitespacePieces, MaxPieces))

\* let result = parse(input);
Parse ==
    /\ parse_pc = "input"
    /\ parse_result' \in parse(input)
    /\ parse_pc' = "parsed"
    /\ UNCHANGED <<input, assembly, loweringVars_but_proof, proofVars, builder,
                   handles, requests, walk>>

SpecParse == InitParse /\ [][Parse]_vars

SpecParseWhitespace == InitParseWhitespace /\ [][Parse]_vars

(***************************************************************************)
(* Properties of the parser.                                               *)
(***************************************************************************)

\* The text from position i on consists of whitespace characters and of
\* comments only: `//` followed by characters other than linebreaks.
RECURSIVE whitespace_and_comments_from(_, _)
whitespace_and_comments_from(text, i) ==
    \/ i > Len(text)
    \/ /\ SubSeq(text, i, i) \in {" ", "\t", "\r", "\n"}
       /\ whitespace_and_comments_from(text, i + 1)
    \/ /\ i < Len(text)
       /\ SubSeq(text, i, i + 1) = "//"
       /\ \E j \in (i + 2)..(Len(text) + 1) :
              /\ \A k \in (i + 2)..(j - 1) : SubSeq(text, k, k) \notin {"\r", "\n"}
              /\ whitespace_and_comments_from(text, j)

\* C17: any input that consists only of whitespace (space, tab, carriage
\* return, line feed) and of // comments, the empty string included, parses
\* successfully as the empty program: parse returns Ok with no tokens.
C17_WhitespaceParsesToEmptyProgram ==
    (parse_pc = "parsed" /\ whitespace_and_comments_from(input, 1))
        => parse_result = [kind |-> "Ok", tokens |-> <<>>, errors |-> <<>>]

\* A text with a comment, a tab and a linebreak has been parsed.
C17_Witness ==
    /\ parse_pc = "parsed"
    /\ whitespace_and_comments_from(input, 1)
    /\ \E i \in 1..(Len(input) - 1) : SubSeq(input, i, i + 1) = "//"
    /\ \E i \in 1..Len(input) : SubSeq(input, i, i) = "\t"
    /\ \E i \in 1..Len(input) : SubSeq(input, i, i) = "\r"
    /\ parse_result.kind = "Ok"

\* What the tokens of a program define and call, and what an error reports.
defined_labels(tokens) ==
    { tokens[i].label : i \in { i \in DOMAIN tokens : tokens[i].token = "Label" } }

label_definitions(tokens, l) ==
    { i \in DOMAIN tokens : tokens[i].token = "Label" /\ tokens[i].label = l }

calls(tokens) ==
    { i \in DOMAIN tokens :
        /\ tokens[i].token = "Instruction"
        /\ tokens[i].instruction.name = "call" }

reports(context) ==
    { e \in DOMAIN parse_result.errors : parse_result.errors[e].context = context }

reports_at(context, at) ==
    { e \in reports(context) : parse_result.errors[e].at = at }

\* C18: labels cannot occur twice.  If a label is defined k >= 2 times in a
\* tokenizable program, parse returns an error that reports 'duplicate label'
\* once for each of the k definitions, the first one included, and nowhere
\* else; parse returns Ok only if every label is defined at most once.
C18_DuplicateLabelsReportedPerOccurrence ==
    parse_pc = "parsed" =>
        \A tokenized \in {tokenize(input)} :
            tokenized.kind = "Ok" =>
                LET tokens == tokenized.out
                    duplicated ==
                        { l \in defined_labels(tokens) :
                            Cardinality(label_definitions(tokens, l)) >= 2 }
                IN  /\ \A l \in duplicated :
                           /\ parse_result.kind = "Err"
                           /\ \A i \in label_definitions(tokens, l) :
                                  Cardinality(reports_at("duplicate label",
                                                         tokens[i].token_str)) = 1
                    /\ Cardinality(reports("duplicate label"))
                           = Cardinality(UNION { label_definitions(tokens, l) :
                                                   l \in duplicated })
                    /\ parse_result.kind = "Ok" => duplicated = {}

\* A label defined three times has been reported three times.
C18_Witness ==
    /\ parse_pc = "parsed"
    /\ parse_result.kind = "Err"
    /\ tokenize(input).kind = "Ok"
    /\ \E l \in defined_labels(tokenize(input).out) :
           Cardinality(label_definitions(tokenize(input).out, l)) = 3
    /\ Cardinality(reports("duplicate label")) = 3

\* C19: non-existent labels cannot be called.  For a tokenizable program,
\* parse returns an error that reports 'missing label' once per call, in
\* either syntax, whose label is defined nowhere in the program; a call to a
\* label defined anywhere, before or after the call, is never reported.
C19_MissingLabelsReportedPerCall ==
    parse_pc = "parsed" =>
        \A tokenized \in {tokenize(input)} :
            tokenized.kind = "Ok" =>
                LET tokens == tokenized.out
                    missing ==
                        { i \in calls(tokens) :
                            tokens[i].instruction.arg \notin defined_labels(tokens) }
                IN  /\ missing # {} => parse_result.kind = "Err"
                    /\ \A i \in calls(tokens) :
                           Cardinality(reports_at("missing label",
                                                  tokens[i].token_str))
                               = IF i \in missing THEN 1 ELSE 0
                    /\ Cardinality(reports("missing label")) = Cardinality(missing)

\* A call in bracket syntax of a label defined nowhere has been reported,
\* next to a call of a label that is defined after the call.
C19_Witness ==
    /\ parse_pc = "parsed"
    /\ parse_result.kind = "Err"
    /\ tokenize(input).kind = "Ok"
    /\ \E i, j \in calls(tokenize(input).out) :
           LET tokens == tokenize(input).out
           IN  /\ tokens[i].instruction.arg \notin defined_labels(tokens)
               /\ SubSeq(tokens[i].token_str, 1, 1) = "["
               /\ reports_at("missing label", tokens[i].token_str) # {}
               /\ \E d \in label_definitions(tokens, tokens[j].instruction.arg) :
                      d > j
               /\ reports_at("missing label", tokens[j].token_str) = {}

\* The text has p at position i.
has_at(text, i, p) ==
    /\ i + Len(p) - 1 <= Len(text)
    /\ SubSeq(text, i, i + Len(p) - 1) = p

\* The positions after whitespace, a colon or a bracket, and the first one.
token_boundaries(text) ==
    { i \in 1..Len(text) :
        i = 1 \/ SubSeq(text, i - 1, i - 1) \in {" ", "\t", "\r", "\n", ":", "]"} }

\* The positions where a label definition `<name>:` or a call, in either
\* syntax, starts whose name is exactly the given one, after a tokenizable
\* text.
definitions_and_calls_of(text, name) ==
    { i \in token_boundaries(text) :
        /\ \/ has_at(text, i, name \o ":")
           \/ has_at(text, i, name \o " :")
           \/ has_at(text, i, "[" \o name \o "]")
           \/ /\ has_at(text, i, "call " \o name)
              /\ \/ i + Len(name) + 4 = Len(text)
                 \/ SubSeq(text, i + Len(name) + 5, i + Len(name) + 5)
                        \in {" ", "\t", "\r", "\n"}
                 \/ has_at(text, i + Len(name) + 5, "//")
        /\ tokenize(SubSeq(text, 1, i - 1)).kind = "Ok" }

named_after_instruction(text) ==
    UNION { definitions_and_calls_of(text, name) : name \in ALL_INSTRUCTION_NAMES }

\* C20: label names may not overlap with instruction names.  A label
\* definition `<name>:` or a call whose name is exactly an instruction name
\* is rejected with the error 'label cannot be named after instruction',
\* reported once; a text without such a name gets no such error, and a name
\* that shares only a prefix or a suffix with an instruction name ('pops',
\* '_call') is a label: the text up to and including its definition is a
\* tokenizable program that ends with this label.
C20_LabelsNotNamedAfterInstructions ==
    parse_pc = "parsed" =>
        /\ named_after_instruction(input) # {} =>
               /\ parse_result.kind = "Err"
               /\ Cardinality(reports("label cannot be named after instruction")) = 1
        /\ named_after_instruction(input) = {} =>
               reports("label cannot be named after instruction") = {}
        /\ \A name \in {"pops", "_call"} :
               \A i \in definitions_and_calls_of(input, name) :
                   has_at(input, i, name \o ":") =>
                       \A tokenized \in {tokenize(SubSeq(input, 1, i + Len(name)))} :
                           /\ tokenized.kind = "Ok"
                           /\ tokenized.out[Len(tokenized.out)].token = "Label"
                           /\ tokenized.out[Len(tokenized.out)].label = name

\* A call of `pop` has been rejected in a text that defines the labels
\* `pops` and `_call` before it.
C20_Witness ==
    /\ parse_pc = "parsed"
    /\ \E i \in definitions_and_calls_of(input, "pop") :
           /\ has_at(input, i, "call pop")
           /\ \E j \in definitions_and_calls_of(input, "pops") : j < i
           /\ \E j \in definitions_and_calls_of(input, "_call") : j < i
    /\ parse_result.kind = "Err"
    /\ Cardinality(reports("label cannot be named after instruction")) = 1

(***************************************************************************)
(* Type hints: a declaration, a range start and, possibly, a range end.    *)
(***************************************************************************)
MaxTypeHintIndex == 11

\* The decimal numeral of a natural number.
RECURSIVE decimal(_)
decimal(n) ==
    IF n < 10 THEN SubSeq("0123456789", n + 1, n + 1)
    ELSE decimal(n \div 10) \o SubSeq("0123456789", (n % 10) + 1, (n % 10) + 1)

TypeHintDeclarations == {"hint a = stack[", "hint foo: Type = stack["}

TypeHintEndings == {"]", " ] halt"}

\* range_end = -1 stands for a type hint without range end.
TypeHintText(declaration, range_start, range_end, ending) ==
    declaration \o decimal(range_start)
        \o (IF range_end = -1 THEN "" ELSE ".." \o decimal(range_end))
        \o ending

TypeHintTexts ==
    { TypeHintText(declaration, range_start, range_end, ending) :
        declaration \in TypeHintDeclarations,
        range_start \in 0..MaxTypeHintIndex,
        range_end \in -1..MaxTypeHintIndex,
        ending \in TypeHintEndings }

InitParseTypeHint == ParseTest(TypeHintTexts)

SpecParseTypeHint == InitParseTypeHint /\ [][Parse]_vars

\* C21: a type hint with a range end is accepted only if end > start, and
\* then its length is end - start; a range with end <= start, the empty
\* range start..start included, is rejected with 'range end must be greater
\* than range start'; without a range end the length is 1.  Every accepted
\* type hint has length >= 1.
C21_TypeHintRangeMustNotBeEmpty ==
    parse_pc = "parsed" =>
        \A declaration \in TypeHintDeclarations, ending \in TypeHintEndings,
           range_start \in 0..MaxTypeHintIndex, range_end \in -1..MaxTypeHintIndex :
            input = TypeHintText(declaration, range_start, range_end, ending) =>
                IF range_end # -1 /\ range_end <= range_start
                THEN /\ parse_result.kind = "Err"
                     /\ Cardinality(reports("range end must be greater than range start")) = 1
                ELSE /\ parse_result.kind = "Ok"
                     /\ parse_result.tokens[1].token = "TypeHint"
                     /\ parse_result.tokens[1].type_hint.starting_index
                            = decimal(range_start)
                     /\ parse_result.tokens[1].type_hint.length
                            = IF range_end = -1 THEN "1"
                              ELSE decimal(range_end - range_start)
                     /\ parse_result.tokens[1].type_hint.length # "0"

\* The range 9..11 has been accepted with length 2.
C21_Witness ==
    /\ parse_pc = "parsed"
    /\ input = TypeHintText("hint foo: Type = stack[", 9, 11, "]")
    /\ parse_result.kind = "Ok"
    /\ parse_result.tokens[1].type_hint.length = "2"

(***************************************************************************)
(* From tokens to a program: to_labelled_instructions,                     *)
(* build_label_to_address_map and turn_labels_into_addresses.              *)
(*                                                                         *)
(* AnInstruction::size and AnInstruction::map_call_address are defined in  *)
(* instruction.rs, which is not part of the sources at hand: an            *)
(* instruction with an argument takes two words, any other one word (the   *)
(* tests expect two words for `call` and one for `halt`), and              *)
(* map_call_address replaces the label of a `call` and nothing else.  An   *)
(* address is a u64 and bfe!(address) is the address itself below the      *)
(* field's modulus; the addresses met here stay far below both.            *)
(***************************************************************************)
size(instruction) ==
    IF instruction.name \in {"pop", "push", "divine", "dup", "swap", "call",
                             "read_mem", "write_mem", "addi", "read_io", "write_io"}
    THEN 2 ELSE 1

to_labelled_instructions(instructions) ==
    [i \in DOMAIN instructions |->
        bind(instructions[i], LAMBDA token :
        IF token.token = "Instruction"
        THEN [kind |-> "Instruction", instruction |-> token.instruction]
        ELSE IF token.token = "Label"
        THEN [kind |-> "Label", label |-> token.label]
        ELSE IF token.token = "Breakpoint"
        THEN [kind |-> "Breakpoint"]
        ELSE [kind |-> "TypeHint", type_hint |-> token.type_hint])]

Panicked(message) ==
    [kind |-> "panic", labelled_instructions |-> <<>>, label_to_address |-> <<>>,
     instructions |-> <<>>, message |-> message]

\* build_label_to_address_map where every labelled instruction advances the
\* instruction pointer by one.
build_label_to_address_map_counting_every_item(program) ==
    [kind |-> "Ok",
     label_map |->
        [key \in { program[i].label :
                        i \in { i \in DOMAIN program : program[i].kind = "Label" } } |->
            (CHOOSE i \in DOMAIN program :
                 program[i].kind = "Label" /\ program[i].label = key) - 1]]

\* The loop of build_label_to_address_map from the i-th labelled instruction on.
RECURSIVE build_label_to_address_map_from(_, _, _, _)
build_label_to_address_map_from(program, i, instruction_pointer, label_map) ==
    IF i > Len(program) THEN [kind |-> "Ok", label_map |-> label_map]
    ELSE bind(program[i], LAMBDA labelled_instruction :
         IF labelled_instruction.kind = "Instruction"
         THEN bind(instruction_pointer + size(labelled_instruction.instruction),
                   LAMBDA advanced :
                   build_label_to_address_map_from(program, i + 1, advanced, label_map))
         ELSE IF labelled_instruction.kind # "Label"
         THEN build_label_to_address_map_from(program, i + 1, instruction_pointer,
                                              label_map)
         ELSE IF labelled_instruction.label \in DOMAIN label_map
         THEN [kind |-> "panic", message |-> "Duplicate label"]
         ELSE bind([key \in DOMAIN label_map \cup {labelled_instruction.label} |->
                       IF key = labelled_instruction.label
                       THEN instruction_pointer ELSE label_map[key]],
                   LAMBDA inserted :
                   build_label_to_address_map_from(program, i + 1,
                                                   instruction_pointer, inserted)))

build_label_to_address_map(program) ==
    build_label_to_address_map_from(program, 1, 0, [key \in {} |-> 0])

\* n copies of an instruction: vec![inst; n].
copies(inst, n) == [k \in 1..n |-> inst]

\* Some(instruction with absolute address), None, or the panic of
\* address_for_label.
turn_label_to_address_for_instruction(labelled_instruction, label_map) ==
    IF labelled_instruction.kind # "Instruction" THEN [kind |-> "None"]
    ELSE bind(labelled_instruction.instruction, LAMBDA instruction :
         IF instruction.name # "call" THEN [kind |-> "Some", inst |-> instruction]
         ELSE IF instruction.arg \in DOMAIN label_map
         THEN [kind |-> "Some",
               inst |-> [name |-> "call", arg |-> label_map[instruction.arg]]]
         ELSE [kind |-> "panic", message |-> "Label not found"])

\* Iterator::flatten from the i-th sequence on.
RECURSIVE flatten_from(_, _)
flatten_from(seqs, i) ==
    IF i > Len(seqs) THEN <<>> ELSE seqs[i] \o flatten_from(seqs, i + 1)

\* turn_labels_into_addresses that keeps a word for what is not an instruction.
turn_labels_into_addresses_keeping_every_item(labelled_instructions, label_to_address) ==
    bind([i \in DOMAIN labelled_instructions |->
             turn_label_to_address_for_instruction(labelled_instructions[i],
                                                   label_to_address)],
         LAMBDA turned :
    IF \E i \in DOMAIN turned : turned[i].kind = "panic"
    THEN [kind |-> "panic", message |-> "Label not found"]
    ELSE [kind |-> "Ok",
          instructions |->
              flatten_from([i \in DOMAIN turned |->
                               IF turned[i].kind = "None"
                               THEN <<[name |-> "nop", arg |-> ""]>>
                               ELSE copies(turned[i].inst, size(turned[i].inst))],
                           1)])

\* filter_map drops what is not an instruction, flat_map repeats every
\* instruction size() times; a panic of address_for_label ends it all.
turn_labels_into_addresses(labelled_instructions, label_to_address) ==
    bind([i \in DOMAIN labelled_instructions |->
             turn_label_to_address_for_instruction(labelled_instructions[i],
                                                   label_to_address)],
         LAMBDA turned :
    IF \E i \in DOMAIN turned : turned[i].kind = "panic"
    THEN [kind |-> "panic", message |-> "Label not found"]
    ELSE [kind |-> "Ok",
          instructions |->
              flatten_from([i \in DOMAIN turned |->
                               IF turned[i].kind = "None" THEN <<>>
                               ELSE copies(turned[i].inst, size(turned[i].inst))],
                           1)])

\* TestCase::run after parse has returned Ok(actual).
assemble(actual) ==
    bind(to_labelled_instructions(actual), LAMBDA labelled_instructions :
    bind(build_label_to_address_map(labelled_instructions), LAMBDA label_to_address :
    IF label_to_address.kind = "panic" THEN Panicked(label_to_address.message)
    ELSE bind(turn_labels_into_addresses(labelled_instructions,
                                         label_to_address.label_map),
              LAMBDA instructions :
         IF instructions.kind = "panic" THEN Panicked(instructions.message)
         ELSE [kind |-> "Ok", labelled_instructions |-> labelled_instructions,
               label_to_address |-> label_to_address.label_map,
               instructions |-> instructions.instructions, message |-> ""])))

MaxAssemblyPieces == 4

AssemblyPieces ==
    {"foo: ", "bar:", "call foo ", "[bar]", "halt ", "push 1 ", "break ",
     "hint a = stack[0] "}

InitAssemble == ParseTest(Texts(AssemblyPieces, MaxAssemblyPieces))

\* let labelled_instructions = to_labelled_instructions(&actual);
\* let label_to_address = build_label_to_address_map(&labelled_instructions);
\* let instructions = turn_labels_into_addresses(&labelled_instructions, &label_to_address);
Assemble ==
    /\ parse_pc = "parsed"
    /\ parse_result.kind = "Ok"
    /\ assembly' = assemble(parse_result.tokens)
    /\ parse_pc' = "assembled"
    /\ UNCHANGED <<input, parse_result, loweringVars_but_proof, proofVars, builder,
                   handles, requests, walk>>

SpecAssemble == InitAssemble /\ [][Parse \/ Assemble]_vars

(***************************************************************************)
(* Properties of the program built from the tokens.                        *)
(***************************************************************************)

Assembled == parse_pc = "assembled" /\ assembly.kind = "Ok"

instructions_of(program) ==
    { i \in DOMAIN program : program[i].kind = "Instruction" }

\* The number of words of the instructions before the i-th item of a
\* labelled program.
words_before(program, i) ==
    SumSeq([j \in 1..(i - 1) |->
               IF program[j].kind = "Instruction"
               THEN size(program[j].instruction) ELSE 0])

\* The produced word is a copy of the instruction, but for a call's address.
is_copy_of(word, instruction) ==
    /\ word.name = instruction.name
    /\ instruction.name # "call" => word.arg = instruction.arg

\* C22: breakpoints, labels and type hints do not propagate to the full
\* program.  The instruction sequence produced by turn_labels_into_addresses
\* holds, for each instruction of the labelled program in order, size()
\* copies of it and nothing else: its length is the sum of the sizes of the
\* instructions alone.
C22_OnlyInstructionsPropagate ==
    Assembled =>
        \A program \in {assembly.labelled_instructions} :
            /\ Len(assembly.instructions) = words_before(program, Len(program) + 1)
            /\ \A i \in instructions_of(program) :
                   \A k \in 1..size(program[i].instruction) :
                       is_copy_of(assembly.instructions[words_before(program, i) + k],
                                  program[i].instruction)

\* `break halt break` has become a program of length 1.
C22_Witness ==
    /\ Assembled
    /\ input = "break halt break "
    /\ Len(assembly.labelled_instructions) = 3
    /\ Len(assembly.instructions) = 1

\* C29: label resolution never panics on parsed programs.  Whenever parse
\* returns Ok, every label is defined at most once and every call target is
\* defined, so build_label_to_address_map does not hit its 'Duplicate
\* label' panic and turn_labels_into_addresses does not hit its 'Label not
\* found' panic.
C29_LabelResolutionNeverPanics ==
    /\ parse_pc = "assembled" => assembly.kind = "Ok"
    /\ parse_result.kind = "Ok" =>
           \A tokens \in {parse_result.tokens} :
               /\ \A l \in defined_labels(tokens) :
                      Cardinality(label_definitions(tokens, l)) = 1
               /\ \A i \in calls(tokens) :
                      tokens[i].instruction.arg \in defined_labels(tokens)

\* A program with two labels and calls of both has been resolved.
C29_Witness ==
    /\ Assembled
    /\ Cardinality(DOMAIN assembly.label_to_address) = 2
    /\ \A l \in DOMAIN assembly.label_to_address :
           \E i \in instructions_of(assembly.labelled_instructions) :
               /\ assembly.labelled_instructions[i].instruction.name = "call"
               /\ assembly.labelled_instructions[i].instruction.arg = l

\* The first instruction after the i-th item of a labelled program; one past
\* the end if no instruction follows.
next_instruction(program, i) ==
    IF \E j \in instructions_of(program) : j > i
    THEN CHOOSE j \in instructions_of(program) :
             j > i /\ \A k \in instructions_of(program) : k > i => j <= k
    ELSE Len(program) + 1

\* C30: build_label_to_address_map maps every label to the sum of the sizes
\* of the instructions that precede it: breakpoints, type hints and other
\* labels add nothing, so consecutive labels share one address and a label
\* at the start of the program has address 0.  Every call resolved by
\* turn_labels_into_addresses points at the index, in the produced word
\* sequence, of the first instruction following the label (at the end of
\* the sequence if no instruction follows it).
C30_LabelAddressIsWordsBefore ==
    Assembled =>
        \A program \in {assembly.labelled_instructions} :
            /\ \A i \in DOMAIN program :
                   program[i].kind = "Label" =>
                       \A address \in {assembly.label_to_address[program[i].label]} :
                           /\ address = words_before(program, i)
                           /\ i = 1 => address = 0
                           /\ (i > 1 /\ program[i - 1].kind = "Label") =>
                                  address = assembly.label_to_address[program[i - 1].label]
            /\ \A c \in instructions_of(program) :
                   program[c].instruction.name = "call" =>
                       \A d \in DOMAIN program :
                           (program[d].kind = "Label"
                               /\ program[d].label = program[c].instruction.arg) =>
                               \A address \in {assembly.instructions[words_before(program, c) + 1].arg} :
                                   \A j \in {next_instruction(program, d)} :
                                       IF j <= Len(program)
                                       THEN /\ address = words_before(program, j)
                                            /\ is_copy_of(assembly.instructions[address + 1],
                                                          program[j].instruction)
                                       ELSE address = Len(assembly.instructions)

\* Two consecutive labels after a two-word instruction share the address 2,
\* and a call has been resolved to it.
C30_Witness ==
    /\ Assembled
    /\ \E i \in DOMAIN assembly.labelled_instructions :
           /\ i > 1
           /\ assembly.labelled_instructions[i].kind = "Label"
           /\ assembly.labelled_instructions[i - 1].kind = "Label"
           /\ assembly.label_to_address[assembly.labelled_instructions[i].label] = 2
           /\ assembly.label_to_address[assembly.labelled_instructions[i - 1].label] = 2
    /\ \E w \in DOMAIN assembly.instructions :
           /\ assembly.instructions[w].name = "call"
           /\ assembly.instructions[w].arg = 2

(***************************************************************************)
(* Degree lowering with the target degrees 0 and 1, of constraints whose   *)
(* roots are leaves or linear, and of a product with a linear factor.      *)
(***************************************************************************)
leaf_only_constraints == << Input("Main", 1), Challenge(Ch1) >>

linear_constraints ==
    << Input("Aux", 1), Sub(Input("Main", 0), BConstant(1)) >>

linear_factor_constraints ==
    << Input("Main", 2),
       Mul(Sub(Input("Main", 0), BConstant(1)), Input("Main", 1)) >>

LowTargetSingleRowInputs ==
    { <<>>, leaf_only_constraints, linear_constraints, linear_factor_constraints }

LowTargetDualRowInputs == { <<>>, << Input("CurrentMain", 0), Input("NextAux", 1) >> }

LowTargetDegrees == {0, 1}

InitLowTarget ==
    /\ \E inputs \in [init : LowTargetSingleRowInputs,
                       cons : LowTargetSingleRowInputs,
                       tran : LowTargetDualRowInputs,
                       term : LowTargetSingleRowInputs],
          target_degree \in LowTargetDegrees, counts \in StartingCounts :
          InitLowering(inputs, target_degree, counts)
    /\ builder = <<>>
    /\ handles = <<>>
    /\ requests = <<>>
    /\ walk = EmptyWalk
    /\ NoProof
    /\ NoParse

SpecLowTarget == InitLowTarget /\ [][Next]_vars

\* The roots the constraints were constructed with, as <<bucket, root id>>.
start_roots ==
    UNION { { <<b, start.constraints[b][k]>> : k \in 1..Len(start.constraints[b]) } :
              b \in BucketSet }

is_degree_one_leaf(root) ==
    start.arena[root[1]][root[2]].kind \in {"Input", "Challenge"}

\* No substitution took place: no new column, no substitution constraint,
\* and the constraints are the ones constructed.
NothingSubstituted ==
    /\ new_columns = [s \in Spaces |-> <<>>]
    /\ substitutions = NoSubstitutions
    /\ base_constraints = <<>>
    /\ ext_constraints = <<>>
    /\ constraints = start.constraints
    /\ arena = start.arena

\* C23 as it is stated: with target degree 0 or 1, constraints whose roots are
\* degree-1 leaves are lowered without error, without substitution, without
\* new column, and are left unchanged.
C23_LowTargetOnLeavesSucceeds ==
    (/\ lowering_info.target_degree \in {0, 1}
     /\ start_roots # {}
     /\ \A root \in start_roots : is_degree_one_leaf(root))
        => (pc # "aborted" /\ NothingSubstituted)

\* C23, amended: with target degree 1, constraints whose roots all have
\* degree at most 1, a leaf among them, are lowered without error, without
\* substitution, without new column, and are left unchanged.  With target
\* degree 0 a degree-1 leaf root exceeds the target while no node is
\* eligible: lowering does not return, it ends in the fatal state without
\* having substituted anything.
C23_TargetOneOnLeavesSucceeds ==
    (/\ start_roots # {}
     /\ \E root \in start_roots : is_degree_one_leaf(root)
     /\ \A root \in start_roots : start.arena[root[1]][root[2]].deg <= 1)
        => /\ NothingSubstituted
           /\ lowering_info.target_degree = 1 => pc # "aborted"
           /\ lowering_info.target_degree = 0 => ~LoweringReturned

\* Leaves and linear roots have been lowered to target degree 1 and combined.
C23_Witness ==
    /\ pc = "combined"
    /\ lowering_info.target_degree = 1
    /\ \E root \in start_roots : is_degree_one_leaf(root)
    /\ \E root \in start_roots : ~is_degree_one_leaf(root)
    /\ \A root \in start_roots : start.arena[root[1]][root[2]].deg <= 1
    /\ NothingSubstituted

(***************************************************************************)
(* Further properties of degree lowering.                                  *)
(***************************************************************************)

\* A root of the bucket being lowered exceeds the target degree.
TargetExceeded ==
    /\ pc = "lower"
    /\ multicircuit_degree(arena[LoweringOrder[cur]], constraints[LoweringOrder[cur]])
          > local_info.target_degree

\* No node of the bucket being lowered can be substituted.
NoEligibleNode ==
    eligible_nodes(arena[LoweringOrder[cur]], constraints[LoweringOrder[cur]],
                   local_info.target_degree) = {}

\* The nodes, over all buckets, that the constraints were constructed with.
constructed_nodes ==
    UNION { { <<b, i>> : i \in 1..Len(start.arena[b]) } : b \in BucketSet }

\* C24: an infeasible degree target is fatal.  When a root of the bucket being
\* lowered exceeds the target degree and no eligible node remains, the next
\* step of the run is the abort, which changes nothing else and is final;
\* lowering leaves a bucket, or returns, only when no root of the bucket
\* exceeds the target; and while the target is exceeded every other step
\* allocates a column, of which a run allocates fewer than it has nodes.
C24_InfeasibleTargetIsFatal ==
    /\ [][/\ (TargetExceeded /\ NoEligibleNode) =>
                (pc' = "aborted" /\ arena' = arena /\ constraints' = constraints
                    /\ substitutions' = substitutions /\ new_columns' = new_columns)
          /\ pc = "aborted" => pc' = "aborted"
          /\ (pc = "lower" /\ (cur' # cur \/ pc' = "lowered")) => ~TargetExceeded
          /\ (TargetExceeded /\ ~NoEligibleNode) =>
                Len(new_columns'["main"]) + Len(new_columns'["aux"])
                    = Len(new_columns["main"]) + Len(new_columns["aux"]) + 1]_vars
    /\ [](Len(new_columns["main"]) + Len(new_columns["aux"])
              < Cardinality(constructed_nodes) + 1)

\* Lowering has aborted in a later bucket, after substitutions in an earlier
\* one: a root exceeds the target and no node is eligible.
C24_Witness ==
    /\ pc = "aborted"
    /\ cur > 1
    /\ substitutions["main"]["init"] # <<>>
    /\ multicircuit_degree(arena[LoweringOrder[cur]], constraints[LoweringOrder[cur]])
          > local_info.target_degree
    /\ NoEligibleNode

\* Values are taken in the integers modulo EvaluationModulus.
\* Values are taken in the integers modulo EvaluationModulus.
EvaluationModulus == 5

indicator_number(ind) ==
    CASE ind = "Main" -> 0 [] ind = "Aux" -> 1
      [] ind = "CurrentMain" -> 0 [] ind = "CurrentAux" -> 1
      [] ind = "NextMain" -> 2 [] ind = "NextAux" -> 3
      [] OTHER -> 4

\* Assignments of values to the original columns and the challenges.
Assignments ==
    [scale : 0..(EvaluationModulus - 1), shift : 0..(EvaluationModulus - 1)]

assigned_value(assignment, x) ==
    (assignment.scale * (x[2] + 1)
        + assignment.shift * (indicator_number(x[1]) + 1)
        + x[2] * indicator_number(x[1])) % EvaluationModulus

apply(op, l, r) ==
    CASE op = "Add" -> (l + r) % EvaluationModulus
      [] op = "Sub" -> (l - r + EvaluationModulus) % EvaluationModulus
      [] op = "Mul" -> (l * r) % EvaluationModulus

\* The substitution constraints of a bucket, the ones of the loop that is
\* still running included.
substitution_roots(b) ==
    { substitutions["main"][b][k] : k \in 1..Len(substitutions["main"][b]) }
    \cup { substitutions["aux"][b][k] : k \in 1..Len(substitutions["aux"][b]) }
    \cup (IF b = LoweringOrder[cur]
          THEN { base_constraints[k] : k \in 1..Len(base_constraints) }
               \cup { ext_constraints[k] : k \in 1..Len(ext_constraints) }
          ELSE {})

\* The substitution constraints that define the column of the leaf.
definitions_of(b, leaf) ==
    { c \in substitution_roots(b) : arena[b][c].l = leaf }

\* The value of a node when every original column and challenge has its
\* assigned value and every new column the value of its defining
\* subexpression.
RECURSIVE value_of(_, _, _)
value_of(b, id, assignment) ==
    LET n == arena[b][id]
    IN  IF n.kind \in {"BConstant", "XConstant"} THEN n.x[2] % EvaluationModulus
        ELSE IF n.kind = "Challenge" THEN assigned_value(assignment, n.x)
        ELSE IF n.kind = "Input"
        THEN IF id <= Len(start.arena[b]) \/ definitions_of(b, id) = {}
             THEN assigned_value(assignment, n.x)
             ELSE value_of(b, arena[b][CHOOSE c \in definitions_of(b, id) : TRUE].r,
                           assignment)
        ELSE apply(n.x[1], value_of(b, n.l, assignment), value_of(b, n.r, assignment))

\* C25: degree lowering preserves the constraints' semantics.  For every
\* assignment of values to the original columns and challenges, with each
\* new column given the value of its defining subexpression: each new column
\* is none of the original ones and has one defining constraint, which
\* evaluates to zero, and to zero for no other value of the column; every
\* rewritten root evaluates to the value of its original root.  Hence,
\* the substitution constraints being zero, the original constraints are
\* all zero exactly when the rewritten roots are.
C25_LoweringPreservesSemantics ==
    \A b \in BucketSet, assignment \in Assignments :
        /\ \A c \in substitution_roots(b) :
               /\ arena[b][c].kind = "BinOp"
               /\ arena[b][arena[b][c].l].kind = "Input"
               /\ arena[b][c].l > Len(start.arena[b])
               /\ definitions_of(b, arena[b][c].l) = {c}
               /\ \A column \in {value_of(b, arena[b][c].l, assignment)},
                     defining \in {value_of(b, arena[b][c].r, assignment)} :
                      \A v \in 0..(EvaluationModulus - 1) :
                          apply(arena[b][c].x[1], v, defining) = 0 <=> v = column
        /\ \A original \in {[k \in 1..Len(start.constraints[b]) |->
                                value_of(b, start.constraints[b][k], assignment)]},
              rewritten \in {[k \in 1..Len(start.constraints[b]) |->
                                 value_of(b, constraints[b][k], assignment)]} :
               /\ rewritten = original
               /\ (\A k \in DOMAIN original : original[k] = 0)
                      <=> \A k \in DOMAIN rewritten : rewritten[k] = 0

\* Lowering has returned with a root rewritten twice over: a new column whose
\* defining subexpression holds another new column, and an assignment under
\* which an original root is not zero.
C25_Witness ==
    /\ pc = "combined"
    /\ \E b \in BucketSet :
          /\ \E c, d \in substitution_roots(b) :
                 arena[b][c].l \in all_nodes_in_circuit(arena[b], arena[b][d].r)
          /\ \E k \in 1..Len(start.constraints[b]) :
                 /\ constraints[b][k] # start.constraints[b][k]
                 /\ \E assignment \in Assignments :
                        value_of(b, constraints[b][k], assignment) # 0

(***************************************************************************)
(* Rewriting and consumption (lib.rs:140-143, 182-220).                    *)
(*                                                                         *)
(* init(), cons(), tran() and term() borrow the constraints (`&self`) and  *)
(* return detached copies; lowering borrows them mutably (`&mut self`) and *)
(* combining takes them by value.  Nothing in these signatures orders a    *)
(* consumption after the last rewriting.                                   *)
(***************************************************************************)
\* C26: once a bucket's circuits have been consumed, that bucket is not
\* rewritten any more: no step after the consumption changes the roots of
\* the bucket consumed last.
C26_NoRewritingAfterConsume ==
    [][consumed.bucket # "none"
          => constraints'[consumed.bucket] = constraints[consumed.bucket]]_vars

(***************************************************************************)
(* Indicator families (lib.rs:54-60, 182-196): init, cons and term hold    *)
(* circuits over SingleRowIndicator, tran over DualRowIndicator.           *)
(***************************************************************************)
SingleRowIndicator == {"Main", "Aux"}

DualRowIndicator == {"CurrentMain", "CurrentAux", "NextMain", "NextAux"}

indicator_family(b) == IF b = "tran" THEN DualRowIndicator ELSE SingleRowIndicator

\* The input leaves reachable from the roots of a bucket and from its
\* substitution constraints.
reachable_inputs(b) ==
    { n \in all_nodes_in_multicircuit(arena[b], constraints[b])
            \cup UNION { all_nodes_in_circuit(arena[b], c) :
                           c \in substitution_roots(b) } :
        arena[b][n].kind = "Input" }

\* C28: in every state of lowering and combining, every input leaf reachable
\* from a root or a substitution constraint of init, cons or term is a
\* single-row indicator, and every one of tran is a dual-row indicator; the
\* column of a substitution constraint is of the family of its bucket.
C28_IndicatorFamilyMatchesBucket ==
    \A b \in BucketSet :
        /\ \A n \in reachable_inputs(b) : arena[b][n].x[1] \in indicator_family(b)
        /\ \A c \in substitution_roots(b) :
               arena[b][arena[b][c].l].x[1] \in indicator_family(b)

\* Combined constraints in which both a single-row bucket and tran hold a
\* root over a fresh column, next to leaves of the original constraints.
C28_Witness ==
    /\ pc = "combined"
    /\ \E b \in BucketSet \ {"tran"} :
          \E n \in reachable_inputs(b) :
              /\ n > Len(start.arena[b])
              /\ arena[b][n].x[1] \in SingleRowIndicator
              /\ Len(constraints[b]) > Len(start.constraints[b])
    /\ \E n, m \in reachable_inputs("tran") :
          /\ n > Len(start.arena["tran"])
          /\ arena["tran"][n].x[1] \in {"NextMain", "NextAux"}
          /\ m <= Len(start.arena["tran"])
          /\ arena["tran"][m].x[1] \in {"CurrentMain", "CurrentAux"}

(***************************************************************************)
(* gen (lib.rs:32-46): lowering, the degree-lowering table code, combining,*)
(* the two evaluators, the three files.                                    *)
(*                                                                         *)
(* The code generators themselves (module substitutions, module codegen)   *)
(* are not among the sources: of each generated artifact the model keeps   *)
(* what it was generated from, as Some(..) = <<..>> and None = <<>>.       *)
(***************************************************************************)
\* The files of the write_code_to_file calls, in call order.
GeneratedFiles ==
    << "triton-vm/src/table/degree_lowering_table.rs",
       "triton-vm/src/table/constraints.rs",
       "triton-vm/src/air/tasm_air_constraints.rs" >>

\* What a backend is handed with `&constraints`: the four buckets, which it
\* reads through init(), cons(), tran() and term().
constraint_set == [b \in BucketSet |-> consume_all(arena[b], constraints[b])]

\* let degree_lowering_table_code =
\*     substitutions.generate_degree_lowering_table_code();
GenerateDegreeLoweringTableCode ==
    /\ pc = "lowered"
    /\ generated.degree_lowering_table_code = <<>>
    /\ generated' = [generated EXCEPT
                        !.degree_lowering_table_code = <<substitutions>>,
                        !.substitutions_used = Append(@, "layout")]
    /\ UNCHANGED <<pc, arena, constraints, lowering_info, info, cur, local_info,
                   base_constraints, ext_constraints, substitutions,
                   new_columns, runVars, builder, handles, requests, walk,
                   consumed, proofVars, parseVars>>

\* GenCombine that does not wait for the degree-lowering table code.
GenCombine_before_table_code ==
    /\ pc = "lowered"
    /\ constraints' = combine_with_substitution_induced_constraints(
                          constraints, substitutions["main"],
                          substitutions["aux"])
    /\ generated' = [generated EXCEPT
                        !.substitutions_used = Append(@, "combine")]
    /\ pc' = "combined"
    /\ UNCHANGED <<arena, lowering_info, info, cur, local_info,
                   base_constraints, ext_constraints, substitutions,
                   new_columns, runVars, builder, handles, requests, walk,
                   consumed, proofVars, parseVars>>

\* let constraints =
\*     constraints.combine_with_substitution_induced_constraints(substitutions);
\* the statement after the table code was generated.
GenCombine ==
    /\ pc = "lowered"
    /\ generated.degree_lowering_table_code # <<>>
    /\ constraints' = combine_with_substitution_induced_constraints(
                          constraints, substitutions["main"],
                          substitutions["aux"])
    /\ generated' = [generated EXCEPT
                        !.substitutions_used = Append(@, "combine")]
    /\ pc' = "combined"
    /\ UNCHANGED <<arena, lowering_info, info, cur, local_info,
                   base_constraints, ext_constraints, substitutions,
                   new_columns, runVars, builder, handles, requests, walk,
                   consumed, proofVars, parseVars>>

\* let rust = RustBackend::constraint_evaluation_code(&constraints);
RustBackend ==
    /\ pc = "combined"
    /\ generated.substitutions_used = <<"layout", "combine">>
    /\ generated.rust = <<>>
    /\ generated' = [generated EXCEPT !.rust = <<constraint_set>>]
    /\ UNCHANGED <<pc, arena, constraints, lowering_info, info, cur, local_info,
                   base_constraints, ext_constraints, substitutions,
                   new_columns, runVars, builder, handles, requests, walk,
                   consumed, proofVars, parseVars>>

\* let tasm = TasmBackend::constraint_evaluation_code(&constraints);
TasmBackend ==
    /\ pc = "combined"
    /\ generated.rust # <<>>
    /\ generated.tasm = <<>>
    /\ generated' = [generated EXCEPT !.tasm = <<constraint_set>>]
    /\ UNCHANGED <<pc, arena, constraints, lowering_info, info, cur, local_info,
                   base_constraints, ext_constraints, substitutions,
                   new_columns, runVars, builder, handles, requests, walk,
                   consumed, proofVars, parseVars>>

\* write_code_to_file(..), three times.
WriteCodeToFile ==
    /\ pc = "combined"
    /\ generated.tasm # <<>>
    /\ Len(generated.files) < Len(GeneratedFiles)
    /\ generated' = [generated EXCEPT
                        !.files = Append(@, GeneratedFiles[Len(@) + 1])]
    /\ UNCHANGED <<pc, arena, constraints, lowering_info, info, cur, local_info,
                   base_constraints, ext_constraints, substitutions,
                   new_columns, runVars, builder, handles, requests, walk,
                   consumed, proofVars, parseVars>>

NextGen ==
    \/ Substitute \/ CannotLower \/ ReturnSubstitutions
    \/ GenerateDegreeLoweringTableCode \/ GenCombine
    \/ RustBackend \/ TasmBackend \/ WriteCodeToFile

SpecGen == Init /\ [][NextGen]_vars

\* The combined constraint set: per bucket the roots as lowering left them,
\* then the main and the aux substitution constraints of the bucket.
IsCombined ==
    \A b \in BucketSet :
        /\ Len(constraints[b]) = Len(start.constraints[b])
                                    + Len(substitutions["main"][b])
                                    + Len(substitutions["aux"][b])
        /\ SubSeq(constraints[b], Len(start.constraints[b]) + 1,
                  Len(constraints[b]))
              = substitutions["main"][b] \o substitutions["aux"][b]

\* C27: gen generates the degree-lowering table code after lowering has
\* ended, from the substitution record lowering returned, and before it
\* combines; it generates the evaluators after combining, the Rust and the
\* TASM evaluator from one and the same combined constraint set, and then
\* writes the files; the substitution record is used once for the layout
\* and then once for combining, and no more.
C27_GenStepOrder ==
    /\ generated.degree_lowering_table_code # <<>>
          => /\ pc \in {"lowered", "combined"}
             /\ generated.degree_lowering_table_code = <<substitutions>>
    /\ generated.substitutions_used
          = IF generated.degree_lowering_table_code = <<>> THEN <<>>
            ELSE IF pc = "lowered" THEN <<"layout">>
            ELSE <<"layout", "combine">>
    /\ pc = "combined"
          => /\ generated.degree_lowering_table_code # <<>>
             /\ IsCombined
    /\ generated.rust # <<>>
          => /\ pc = "combined"
             /\ generated.rust = <<constraint_set>>
    /\ generated.tasm # <<>>
          => /\ generated.rust # <<>>
             /\ generated.tasm = generated.rust
    /\ generated.files # <<>> => generated.tasm # <<>>
    /\ generated.files = SubSeq(GeneratedFiles, 1, Len(generated.files))

\* gen has run to its end on constraints that lowering rewrote: both
\* evaluators hold substitution constraints next to the rewritten roots.
C27_Witness ==
    /\ generated.files = GeneratedFiles
    /\ generated.tasm = generated.rust
    /\ generated.degree_lowering_table_code = <<substitutions>>
    /\ substitutions["main"]["init"] # <<>>
    /\ substitutions["aux"]["tran"] # <<>>
    /\ Len(generated.rust[1]["tran"]) > Len(start.constraints["tran"])
    /\ constraints["init"] # start.constraints["init"] \o substitutions["main"]["init"]
                                  \o substitutions["aux"]["init"]

================================================================
